---- MODULE Spec2Model ----
(***************************************************************************)
(* Tracked-buffer pool of the encoder (CodechalEncodeTrackedBuffer) and    *)
(* the HEVC picture/slice reference bookkeeping (CodechalEncodeHevcBase).  *)
(***************************************************************************)
EXTENDS Integers, Sequences, FiniteSets, TLC

(***************************************************************************)
(* Bounds of the model                                                     *)
(***************************************************************************)
\* frame identities (FrameIdx of the reconstructed surfaces) are 0..MaxFrameIdx
MaxFrameIdx == 1

(***************************************************************************)
(* Program constants                                                       *)
(***************************************************************************)
\* slots of the reference region (RefCapacity) and of the non-reference ring
CODEC_NUM_REF_BUFFERS == 8
CODEC_NUM_NON_REF_BUFFERS == 3
CODEC_NUM_TRACKED_BUFFERS == CODEC_NUM_REF_BUFFERS + CODEC_NUM_NON_REF_BUFFERS
CODEC_MAX_NUM_REF_FRAME == 16
PICTURE_MAX_7BITS == 127
PICTURE_RESIZE == 240

FrameIds == 0..MaxFrameIdx
Slots == 0..(CODEC_NUM_TRACKED_BUFFERS - 1)
RefSlots == 0..(CODEC_NUM_REF_BUFFERS - 1)
NonRefSlots == CODEC_NUM_REF_BUFFERS..(CODEC_NUM_TRACKED_BUFFERS - 1)

\* the resource kinds the pool allocates and releases per slot
Kinds == {"mbCode", "mvData", "mvTemporal", "ds4xRecon", "ds8xRecon"}

\* the encoder configurations: is MbCode allocated by the pool, is there a
\* separate MV data surface (AVC only), does the codec use a temporal MV
\* buffer, is VDEnc enabled
NoAllocConfig ==
    [allocateMbCode |-> FALSE, mvData |-> FALSE, mvTemporal |-> FALSE, vdenc |-> FALSE]
VdencConfig ==
    [allocateMbCode |-> TRUE, mvData |-> FALSE, mvTemporal |-> FALSE, vdenc |-> TRUE]
FullConfig ==
    [allocateMbCode |-> TRUE, mvData |-> TRUE, mvTemporal |-> TRUE, vdenc |-> TRUE]

VARIABLES
    m_trackedBuffer,          \* slot -> ucSurfIndex7bits
    bUsedforCurFrame,         \* slot -> the slot was handed out for the current frame
    resources,                \* slot -> set of resource kinds the slot holds
    m_trackedBufCurrIdx,
    m_trackedBufPenuIdx,
    m_trackedBufAnteIdx,
    m_trackedBufNonRefIdx,
    m_trackedBufCountNonRef,
    m_trackedBufCountResize,
    m_waitForTrackedBuffer,
    config,                   \* m_allocateMbCode, m_mvDataSize # 0, m_vdencEnabled
    call,                     \* the last pool operation, its inputs and its status
    fault,                    \* "none"; "oob": a slot outside the table was accessed and
                              \* the program went on; "crash": the access ended the program
    hist,                     \* what the history of the calls was (observation only)
    pic                       \* the picture being set up: its parameters and what was derived

poolVars == <<m_trackedBuffer, bUsedforCurFrame, resources, m_trackedBufCurrIdx, m_trackedBufPenuIdx,
              m_trackedBufAnteIdx, m_trackedBufNonRefIdx, m_trackedBufCountNonRef,
              m_trackedBufCountResize, m_waitForTrackedBuffer>>

vars == <<m_trackedBuffer, bUsedforCurFrame, resources, m_trackedBufCurrIdx, m_trackedBufPenuIdx,
          m_trackedBufAnteIdx, m_trackedBufNonRefIdx, m_trackedBufCountNonRef,
          m_trackedBufCountResize, m_waitForTrackedBuffer, config, call, fault, hist,
          pic>>

IsRealIdentity(v) == v # PICTURE_MAX_7BITS /\ v # PICTURE_RESIZE

\* the constructor sets m_mbCodeIsTracked
m_mbCodeIsTracked == TRUE

(***************************************************************************)
(* Release of the resources of a slot                                      *)
(***************************************************************************)
ReleaseMbCode(res, i) == [res EXCEPT ![i] = @ \ {"mbCode"}]
ReleaseMvData(res, i) == [res EXCEPT ![i] = @ \ {"mvData"}]
ReleaseDsRecon(res, i) == [res EXCEPT ![i] = @ \ {"ds4xRecon", "ds8xRecon"}]

(***************************************************************************)
(* Resize: free every slot but the last three, which are marked            *)
(***************************************************************************)
\* (mutant) the oldest of the three is not protected
IsLastTwo(i, ante, penu, curr) == penu = i \/ curr = i

\* is slot i one of the last three slots used
IsLastThree(i, ante, penu, curr) == ante = i \/ penu = i \/ curr = i

\* the value Resize writes to slot i
ResizeSurfIndex(i, ante, penu, curr) ==
    IF ~IsLastThree(i, ante, penu, curr) THEN PICTURE_MAX_7BITS ELSE PICTURE_RESIZE

\* the resources slot i holds when Resize returns
ResizeResources(res, i, ante, penu, curr) ==
    IF ~IsLastThree(i, ante, penu, curr)
    THEN LET r1 == IF m_mbCodeIsTracked THEN ReleaseMbCode(res, i) ELSE res
         IN  ReleaseDsRecon(ReleaseMvData(r1, i), i)[i]
    ELSE res[i]

(***************************************************************************)
(* ReleaseBufferOnResChange: the deferred release of one of the last three *)
(***************************************************************************)
\* (mutant) the release is not guarded
ReleaseGuardAlways(ante, penu, curr) == TRUE

\* (mutant) the release asks for three different slots
ReleaseGuardAllDistinct(ante, penu, curr) == ante # penu /\ ante # curr /\ penu # curr

\* (mutant) the release does not look at the current slot
ReleaseGuardPenuOnly(ante, penu, curr) == ante # penu

\* the guard of the release
ReleaseGuard(ante, penu, curr) == ante # penu /\ ante # curr

\* the table and the resources after the release of slot ante; a slot outside
\* the table is not part of the pool: the table is left as it is and the access
\* is reported in "oob"
ReleaseBufferOnResChange(buf, res, ante, penu, curr) ==
    IF ReleaseGuard(ante, penu, curr)
    THEN IF ante \in Slots
         THEN [buf |-> [buf EXCEPT ![ante] = PICTURE_MAX_7BITS],
               res |-> ReleaseDsRecon(ReleaseMvData(ReleaseMbCode(res, ante), ante), ante),
               oob |-> FALSE]
         ELSE [buf |-> buf, res |-> res, oob |-> TRUE]
    ELSE [buf |-> buf, res |-> res, oob |-> FALSE]

(***************************************************************************)
(* LookUpBufIndex                                                          *)
(***************************************************************************)
\* SetSequenceStructs: if the GOP structure is I-frame only, the 3 non-ref
\* slots are used
m_gopIsIdrFrameOnly(GopPicSize) == GopPicSize = 1

\* (mutant) the GOP structure is not looked at
UseRefPolicyAnyGop(usedAsRef, numRefFrame, gopIsIdrFrameOnly) ==
    usedAsRef /\ numRefFrame <= CODEC_MAX_NUM_REF_FRAME

\* the reference policy is used
UseRefPolicy(usedAsRef, numRefFrame, gopIsIdrFrameOnly) ==
    usedAsRef /\ numRefFrame <= CODEC_MAX_NUM_REF_FRAME /\ ~gopIsIdrFrameOnly

\* (mutant) the inner loop stops one entry short of numRefFrame
SetMax(S) == CHOOSE m \in S : \A x \in S : x <= m
IsStillActiveOffByOne(refFrameIdx, refPicIdx) ==
    refPicIdx # {} /\ refFrameIdx \in (refPicIdx \ {SetMax(refPicIdx)})

\* the inner loop over refPicIdx: is the frame of a slot still in the list
IsStillActive(refFrameIdx, refPicIdx) == refFrameIdx \in refPicIdx

\* (mutant) a slot whose frame left the list is not reclaimed
ReclaimStaleNever(v, refPicIdx) == v

\* the value of slot i after the check "this ref frame is no longer active"
ReclaimStale(v, refPicIdx) ==
    IF v # PICTURE_MAX_7BITS /\ v # PICTURE_RESIZE /\ ~IsStillActive(v, refPicIdx)
    THEN PICTURE_MAX_7BITS
    ELSE v

\* (mutant) the loop leaves at the first empty slot (break for continue)
RECURSIVE ScanRefSlotsBreak(_, _, _, _, _)
ScanRefSlotsBreak(i, buf, index, notFound, refPicIdx) ==
    IF i >= CODEC_NUM_REF_BUFFERS
    THEN [buf |-> buf, index |-> index]
    ELSE LET buf1 == [buf EXCEPT ![i] = ReclaimStale(buf[i], refPicIdx)]
         IN  IF notFound /\ PICTURE_MAX_7BITS = buf1[i]
             THEN [buf |-> buf1, index |-> i]
             ELSE ScanRefSlotsBreak(i + 1, buf1, index, notFound, refPicIdx)

\* the loop over the reference region: slot i onwards, with the table, the
\* index found and notFound so far
RECURSIVE ScanRefSlots(_, _, _, _, _)
ScanRefSlots(i, buf, index, notFound, refPicIdx) ==
    IF i >= CODEC_NUM_REF_BUFFERS
    THEN [buf |-> buf, index |-> index]
    ELSE LET buf1 == [buf EXCEPT ![i] = ReclaimStale(buf[i], refPicIdx)]
         IN  IF notFound /\ PICTURE_MAX_7BITS = buf1[i]
             THEN ScanRefSlots(i + 1, buf1, i, FALSE, refPicIdx)
             ELSE ScanRefSlots(i + 1, buf1, index, notFound, refPicIdx)

\* (mutant) the counter is not reset when m_waitForPak is set
NextCountNonRefNoReset(count, waitForPak) ==
    count + (IF count < CODEC_NUM_NON_REF_BUFFERS THEN 1 ELSE 0)

\* the non-reference branch: the counter
NextCountNonRef(count, waitForPak) ==
    IF ~waitForPak
    THEN count + (IF count < CODEC_NUM_NON_REF_BUFFERS THEN 1 ELSE 0)
    ELSE 0

\* (mutant) the ring wraps one slot late, past the end of the table
NextNonRefIdxLongRing(nonRefIdx) == (nonRefIdx + 1) % (CODEC_NUM_NON_REF_BUFFERS + 1)

\* (mutant) the ring wraps one slot early
NextNonRefIdxShortRing(nonRefIdx) == (nonRefIdx + 1) % (CODEC_NUM_NON_REF_BUFFERS - 1)

\* the non-reference branch: the ring cursor
NextNonRefIdx(nonRefIdx) == (nonRefIdx + 1) % CODEC_NUM_NON_REF_BUFFERS

\* (mutant) the slot found is left as it is
BindIndexNothing(buf, index, frameIdx) == buf

\* the binding of the slot found to the current reconstructed picture
BindIndex(buf, index, frameIdx) ==
    IF index < CODEC_NUM_TRACKED_BUFFERS THEN [buf EXCEPT ![index] = frameIdx] ELSE buf

LookUpBufIndex(buf, nonRefIdx, countNonRef, refList, usedAsRef, gopIsIdrFrameOnly, waitForPak, frameIdx) ==
    IF UseRefPolicy(usedAsRef, Cardinality(refList), gopIsIdrFrameOnly)
    THEN CHOOSE out \in { [buf |-> BindIndex(r.buf, r.index, frameIdx), index |-> r.index,
                            nonRefIdx |-> nonRefIdx, countNonRef |-> countNonRef] :
                           r \in { ScanRefSlots(0, buf, PICTURE_MAX_7BITS, TRUE, refList) } } : TRUE
    ELSE LET n == NextNonRefIdx(nonRefIdx)
             index == CODEC_NUM_REF_BUFFERS + n
         IN  [buf |-> BindIndex(buf, index, frameIdx), index |-> index,
              nonRefIdx |-> n, countNonRef |-> NextCountNonRef(countNonRef, waitForPak)]

\* (mutant) the index LookUpBufIndex returns is taken for a slot whatever it is
SlotSelectedAlways(index) == index <= PICTURE_MAX_7BITS

\* line 46: LookUpBufIndex returned a slot of the table
SlotSelected(index) == index < CODEC_NUM_TRACKED_BUFFERS

\* (mutant) the region of the slot is not looked at
WaitForTrackedBufferAnyRegion(currIdx, countNonRef) ==
    countNonRef >= CODEC_NUM_NON_REF_BUFFERS

\* wait to re-use once the number of non-ref slots being used reaches 3
WaitForTrackedBuffer(currIdx, countNonRef) ==
    currIdx >= CODEC_NUM_REF_BUFFERS /\ countNonRef >= CODEC_NUM_NON_REF_BUFFERS

(***************************************************************************)
(* The allocation of the resources of the current frame                    *)
(***************************************************************************)
\* An allocation in progress: res the resources of the slots, created the
\* kinds AllocateResource made in this call, zeroed those made with the zero
\* flag set, failed the kind the allocator could not make, ok the status so
\* far.
AllocStart(res) == [res |-> res, created |-> {}, zeroed |-> {}, failed |-> "none", ok |-> TRUE]

\* m_allocator->AllocateResource(..., kind, bufIndex, zero): null when the
\* allocator cannot satisfy the request (failAt names that kind)
AllocateResource(a, i, kind, zero, failAt) ==
    IF kind = failAt
    THEN [a EXCEPT !.failed = kind, !.ok = FALSE]
    ELSE [a EXCEPT !.res = [a.res EXCEPT ![i] = @ \cup {kind}],
                   !.created = @ \cup {kind},
                   !.zeroed = IF zero THEN @ \cup {kind} ELSE @]

\* (mutant) the MbCode buffer is made with the zero flag off
AllocateMbCodeResourcesNoZero(a, bufIndex, failAt) ==
    IF bufIndex >= CODEC_NUM_TRACKED_BUFFERS THEN [a EXCEPT !.ok = FALSE]
    ELSE IF "mbCode" \in a.res[bufIndex] THEN a
    ELSE AllocateResource(a, bufIndex, "mbCode", FALSE, failAt)

AllocateMbCodeResources(a, bufIndex, failAt) ==
    IF bufIndex >= CODEC_NUM_TRACKED_BUFFERS THEN [a EXCEPT !.ok = FALSE]
    ELSE IF "mbCode" \in a.res[bufIndex] THEN a
    ELSE AllocateResource(a, bufIndex, "mbCode", TRUE, failAt)

\* (mutant) no early exit when the slot holds the surface
AllocateMvDataResourcesNoEarlyExit(a, bufIndex, failAt) ==
    AllocateResource(a, bufIndex, "mvData", TRUE, failAt)

AllocateMvDataResources(a, bufIndex, failAt) ==
    IF "mvData" \in a.res[bufIndex] THEN a
    ELSE AllocateResource(a, bufIndex, "mvData", TRUE, failAt)

\* the temporal MV buffer of the slot: made once, zero-filled, the status
\* telling whether the allocator made it
AllocateMvTemporalBuffer(a, bufIndex, failAt) ==
    IF "mvTemporal" \in a.res[bufIndex] THEN a
    ELSE AllocateResource(a, bufIndex, "mvTemporal", TRUE, failAt)

\* the early exit looks at the 4x surface only
AllocateDsReconSurfacesVdenc(a, bufIndex, failAt) ==
    IF "ds4xRecon" \in a.res[bufIndex] THEN a
    ELSE LET b == AllocateResource(a, bufIndex, "ds4xRecon", FALSE, failAt)
         IN  IF ~b.ok THEN b
             ELSE AllocateResource(b, bufIndex, "ds8xRecon", FALSE, failAt)

\* lines 55-64: MbCode and MV data, each status checked
AllocateMbCodeAndMvData(a, i, cfg, failAt) ==
    IF ~cfg.allocateMbCode THEN a
    ELSE LET b == AllocateMbCodeResources(a, i, failAt)
         IN  IF ~b.ok \/ ~cfg.mvData THEN b
             ELSE AllocateMvDataResources(b, i, failAt)

\* lines 55-76: the resources of the current frame on slot i. The status of
\* AllocateMvTemporalBuffer is not looked at (line 68).
AllocateResources(res, i, cfg, failAt) ==
    LET b == AllocateMbCodeAndMvData(AllocStart(res), i, cfg, failAt)
    IN  IF ~b.ok THEN b
        ELSE LET c == IF cfg.mvTemporal
                      THEN [AllocateMvTemporalBuffer(b, i, failAt) EXCEPT !.ok = TRUE]
                      ELSE b
             IN  IF cfg.vdenc THEN AllocateDsReconSurfacesVdenc(c, i, failAt) ELSE c

(***************************************************************************)
(* The operations                                                          *)
(***************************************************************************)
\* what the last call did: the operation, the policy of the selection, the
\* identity of the reconstructed picture (m_currReconstructedPic.FrameIdx), the
\* kinds the selected slot held when the allocation of its resources began,
\* the kinds made, those made zero-filled, the kind that could not be made,
\* and whether the call succeeded
CallInit ==
    [op |-> "init", refPolicy |-> FALSE, frameIdx |-> PICTURE_MAX_7BITS,
     held |-> {}, created |-> {}, zeroed |-> {},
     failed |-> "none", ok |-> TRUE]

\* no picture is being set up
NoPicture == [step |-> "none"]

\* the state after the constructor
PoolInit ==
    /\ m_trackedBuffer = [i \in Slots |-> PICTURE_MAX_7BITS]
    /\ bUsedforCurFrame = [i \in Slots |-> FALSE]
    /\ resources = [i \in Slots |-> {}]
    /\ m_trackedBufCurrIdx = 0
    /\ m_trackedBufPenuIdx = 0
    /\ m_trackedBufAnteIdx = 0
    /\ m_trackedBufNonRefIdx = 0
    /\ m_trackedBufCountNonRef = 0
    /\ m_trackedBufCountResize = 0
    /\ m_waitForTrackedBuffer = FALSE
    /\ call = CallInit
    /\ fault = "none"

\* (mutant) both older indices take the index of the last frame
UpdateLastIndicesNoShift(penu, curr) == [ante |-> curr, penu |-> curr]

\* lines 42-43: update the last 3 buffer index
UpdateLastIndices(penu, curr) == [ante |-> penu, penu |-> curr]

\* AllocateForCurrFrame with the current reference list (refList, usedAsRef),
\* the identity of the reconstructed picture, m_waitForPak and
\* m_gopIsIdrFrameOnly of the encoder; failAt is the kind the allocator fails
\* on. The release of a slot outside the table is undefined behaviour: either
\* the access ends the program ("crash"), or it lands outside the pool and the
\* call goes on with the table as it is ("oob").
AllocateForCurrFrame(refList, usedAsRef, frameIdx, waitForPak, gopIsIdrFrameOnly, failAt) ==
    /\ fault # "crash"
    /\ \E rel \in { IF m_trackedBufCountResize > 0
                     THEN ReleaseBufferOnResChange(m_trackedBuffer, resources, m_trackedBufAnteIdx,
                                                   m_trackedBufPenuIdx, m_trackedBufCurrIdx)
                     ELSE [buf |-> m_trackedBuffer, res |-> resources, oob |-> FALSE] } :
       \/ /\ rel.oob
          /\ fault' = "crash"
          /\ UNCHANGED <<poolVars, config, call, pic>>
       \/ \E look \in { LookUpBufIndex(rel.buf, m_trackedBufNonRefIdx, m_trackedBufCountNonRef,
                                         refList, usedAsRef, gopIsIdrFrameOnly, waitForPak, frameIdx) } :
            \E alloc \in { IF SlotSelected(look.index)
                            THEN AllocateResources(rel.res, look.index, config, failAt)
                            ELSE [AllocStart(rel.res) EXCEPT !.ok = FALSE] } :
               /\ fault' = IF rel.oob THEN "oob" ELSE fault
               /\ m_trackedBufCountResize' =
                      IF m_trackedBufCountResize > 0
                      THEN m_trackedBufCountResize - 1 ELSE m_trackedBufCountResize
               /\ m_trackedBufAnteIdx' =
                      UpdateLastIndices(m_trackedBufPenuIdx, m_trackedBufCurrIdx).ante
               /\ m_trackedBufPenuIdx' =
                      UpdateLastIndices(m_trackedBufPenuIdx, m_trackedBufCurrIdx).penu
               /\ m_trackedBufCurrIdx' = look.index
               /\ m_trackedBuffer' = look.buf
               /\ m_trackedBufNonRefIdx' = look.nonRefIdx
               /\ m_trackedBufCountNonRef' = look.countNonRef
               /\ m_waitForTrackedBuffer' =
                      IF SlotSelected(look.index)
                      THEN WaitForTrackedBuffer(look.index, look.countNonRef)
                      ELSE m_waitForTrackedBuffer
               /\ resources' = alloc.res
               /\ call' = [op |-> "alloc",
                           refPolicy |-> UseRefPolicy(usedAsRef, Cardinality(refList), gopIsIdrFrameOnly),
                           frameIdx |-> frameIdx,
                           held |-> IF look.index \in Slots
                                    THEN rel.res[look.index] ELSE {},
                           created |-> alloc.created, zeroed |-> alloc.zeroed,
                           failed |-> alloc.failed, ok |-> alloc.ok]
               /\ UNCHANGED <<bUsedforCurFrame, config, pic>>

\* Resize
Resize ==
    /\ fault # "crash"
    /\ m_trackedBufCountResize' = CODEC_NUM_NON_REF_BUFFERS
    /\ m_trackedBuffer' = [i \in Slots |->
           ResizeSurfIndex(i, m_trackedBufAnteIdx, m_trackedBufPenuIdx, m_trackedBufCurrIdx)]
    /\ resources' = [i \in Slots |->
           ResizeResources(resources, i, m_trackedBufAnteIdx, m_trackedBufPenuIdx, m_trackedBufCurrIdx)]
    /\ call' = [CallInit EXCEPT !.op = "resize"]
    /\ UNCHANGED <<bUsedforCurFrame, m_trackedBufCurrIdx, m_trackedBufPenuIdx,
                   m_trackedBufAnteIdx, m_trackedBufNonRefIdx, m_trackedBufCountNonRef,
                   m_waitForTrackedBuffer, config, fault, pic>>

(***************************************************************************)
(* Spec: the bindings of the table under every sequence of frames and      *)
(* resizes, no picture naming its own identity in its candidate list.      *)
(* hist is the candidate list of the last picture.                         *)
(***************************************************************************)
Init ==
    /\ PoolInit
    /\ config = NoAllocConfig
    /\ hist = {}
    /\ pic = NoPicture

AllocateAnyFrame ==
    \E frameIdx \in FrameIds, usedAsRef \in BOOLEAN :
       \E refList \in SUBSET (FrameIds \ {frameIdx}) :
          /\ AllocateForCurrFrame(refList, usedAsRef, frameIdx, FALSE, FALSE, "none")
          /\ hist' = IF fault' # "crash" THEN refList ELSE hist

ResizeAny == Resize /\ hist' = {}

Next == AllocateAnyFrame \/ ResizeAny

Spec == Init /\ [][Next]_vars

TypeOK ==
    /\ m_trackedBufCountNonRef \in 0..CODEC_NUM_NON_REF_BUFFERS
    /\ m_trackedBufCountResize \in 0..CODEC_NUM_NON_REF_BUFFERS
    /\ m_trackedBufNonRefIdx \in 0..(CODEC_NUM_NON_REF_BUFFERS - 1)

(***************************************************************************)
(* SpecCount: the counters and the ring under every sequence of reference  *)
(* and non-reference frames, of m_waitForPak and of resizes, all frames on *)
(* one surface. hist observes the calls:                                   *)
(*   run    non-reference allocations in a row, the run broken by a        *)
(*          reference allocation and by an allocation with m_waitForPak    *)
(*   sync   non-reference allocations since the last non-reference         *)
(*          allocation with m_waitForPak                                   *)
(*   streak allocation calls in a row that used the non-reference policy   *)
(*   picks  the slots selected by the last calls, latest last              *)
(*   script how many calls of the sequence reference, non-reference,       *)
(*          non-reference, non-reference, reference the calls since        *)
(*          construction have been, none with m_waitForPak; NoScript once  *)
(*          the calls have left that sequence                              *)
(*   usedAsRef, numRef, GopPicSize, waitForPak                             *)
(*          bUsedAsRef and ucNumRef of the reference list of the last      *)
(*          call, GopPicSize of the sequence and m_waitForPak at that call *)
(***************************************************************************)
NoScript == 0 - 1

ScriptIsRef(k) == k \in {0, 4}

NextScript(k, refPolicy, waitForPak) ==
    IF k \in 0..4 /\ ~waitForPak /\ refPolicy = ScriptIsRef(k) THEN k + 1 ELSE NoScript

Cap(n) == IF n < CODEC_NUM_NON_REF_BUFFERS THEN n ELSE CODEC_NUM_NON_REF_BUFFERS

LastPicks(picks, index) ==
    IF Len(picks) >= CODEC_NUM_NON_REF_BUFFERS THEN Append(Tail(picks), index)
    ELSE Append(picks, index)

InitCount ==
    /\ PoolInit
    /\ config = NoAllocConfig
    /\ hist = [run |-> 0, sync |-> 0, streak |-> 0, picks |-> <<>>, script |-> 0,
               usedAsRef |-> FALSE, numRef |-> 0, GopPicSize |-> 0, waitForPak |-> FALSE]
    /\ pic = NoPicture

\* GopPicSize of the sequence parameters: I-frame only, or longer
GopPicSizes == {1, 2}

AllocateCount ==
    \E usedAsRef \in BOOLEAN, GopPicSize \in GopPicSizes, waitForPak \in BOOLEAN,
       refList \in {{}, {0}} :
       /\ AllocateForCurrFrame(refList, usedAsRef, 0, waitForPak,
                               m_gopIsIdrFrameOnly(GopPicSize), "none")
       /\ hist' = IF fault' = "crash" THEN hist
                  ELSE IF call'.refPolicy
                  THEN [run |-> 0, sync |-> hist.sync, streak |-> 0,
                        picks |-> LastPicks(hist.picks, m_trackedBufCurrIdx'),
                        script |-> NextScript(hist.script, TRUE, waitForPak),
                        usedAsRef |-> usedAsRef, numRef |-> Cardinality(refList),
                        GopPicSize |-> GopPicSize, waitForPak |-> waitForPak]
                  ELSE [run |-> IF waitForPak THEN 0 ELSE Cap(hist.run + 1),
                        sync |-> IF waitForPak THEN 0 ELSE Cap(hist.sync + 1),
                        streak |-> Cap(hist.streak + 1),
                        picks |-> LastPicks(hist.picks, m_trackedBufCurrIdx'),
                        script |-> NextScript(hist.script, FALSE, waitForPak),
                        usedAsRef |-> usedAsRef, numRef |-> Cardinality(refList),
                        GopPicSize |-> GopPicSize, waitForPak |-> waitForPak]

ResizeCount == Resize /\ hist' = [hist EXCEPT !.script = NoScript]

NextCount == AllocateCount \/ ResizeCount

SpecCount == InitCount /\ [][NextCount]_vars

(***************************************************************************)
(* SpecResize: the deferred release under every sequence of reference and  *)
(* non-reference frames and of resizes, all frames on one surface, the     *)
(* slots holding resources. hist observes the last Resize:                 *)
(*   sinceResize  AllocateForCurrFrame calls since it (NoResize: no Resize *)
(*                within the last three calls)                             *)
(*   snap         <<prevPrevIdx, prevIdx, currIdx>> when it was called     *)
(*   res          the resources these three slots held when it was called  *)
(***************************************************************************)
ResourcesOf(res, i) == IF i \in Slots THEN res[i] ELSE {}
NoResize == 0 - 1
NoSnap == [sinceResize |-> NoResize, snap |-> <<>>, res |-> <<>>]

InitResize ==
    /\ PoolInit
    /\ config = VdencConfig
    /\ hist = NoSnap
    /\ pic = NoPicture

AllocateResize ==
    \E usedAsRef \in BOOLEAN, refList \in {{}, {0}} :
          /\ AllocateForCurrFrame(refList, usedAsRef, 0, FALSE, FALSE, "none")
          /\ hist' = IF fault' = "crash" THEN hist
                     ELSE IF hist.sinceResize = NoResize
                             \/ hist.sinceResize >= CODEC_NUM_NON_REF_BUFFERS
                     THEN NoSnap
                     ELSE [hist EXCEPT !.sinceResize = @ + 1]

ResizeResize ==
    /\ Resize
    /\ hist' = [sinceResize |-> 0,
                snap |-> <<m_trackedBufAnteIdx, m_trackedBufPenuIdx, m_trackedBufCurrIdx>>,
                res |-> <<ResourcesOf(resources, m_trackedBufAnteIdx),
                          ResourcesOf(resources, m_trackedBufPenuIdx),
                          ResourcesOf(resources, m_trackedBufCurrIdx)>>]

NextResize == AllocateResize \/ ResizeResize

SpecResize == InitResize /\ [][NextResize]_vars

(***************************************************************************)
(* SpecAlloc: the resources of the slots when the pool allocates every     *)
(* kind and the allocator may fail on any one kind in a call, under every  *)
(* sequence of reference frames on one surface and of resizes. hist tells  *)
(* whether the allocator has failed since construction.                    *)
(***************************************************************************)
InitAlloc ==
    /\ PoolInit
    /\ config = FullConfig
    /\ hist = FALSE
    /\ pic = NoPicture

AllocateAlloc ==
    \E failAt \in Kinds \cup {"none"} :
       /\ AllocateForCurrFrame({}, TRUE, 0, FALSE, FALSE, failAt)
       /\ hist' = (hist \/ (fault' # "crash" /\ call'.failed # "none"))

ResizeAlloc == Resize /\ UNCHANGED hist

NextAlloc == AllocateAlloc \/ ResizeAlloc

SpecAlloc == InitAlloc /\ [][NextAlloc]_vars

(***************************************************************************)
(* The HEVC picture set-up: SetPictureStructs and SetSliceStructs          *)
(***************************************************************************)
MaxRefs == 2

CODEC_MAX_NUM_REF_FRAME_HEVC == 16
CODECHAL_MAX_CUR_NUM_REF_FRAME_HEVC == 8
CODECHAL_ENCODE_HEVC_MAX_SLICE_QP == 51
NoCollocatedRefPic == 255

\* the positions of RefFrameList, RefFramePOCList, RefIdxMapping
Positions == 0..(CODEC_MAX_NUM_REF_FRAME_HEVC - 1)

\* a CODEC_PICTURE: FrameIdx and PicFlags
FramePic(frameIdx) == [FrameIdx |-> frameIdx, PicFlags |-> "frame"]
InvalidPic == [FrameIdx |-> PICTURE_MAX_7BITS, PicFlags |-> "invalid"]
CodecHal_PictureIsInvalid(p) == p.PicFlags = "invalid"

\* uint8_t of a signed value
ToUint8(v) == v % 256

\* lines 932-951: the positions some slice names in one of its two lists, the
\* entry of the slice and the entry of RefFrameList both valid
CurrUsedRefPic(RefFrameList, slices) ==
    [i \in Positions |->
        \E s \in 1..Len(slices), ll \in 1..2 :
           \E k \in 1..Len(slices[s].RefPicList[ll]) :
              LET refPic == slices[s].RefPicList[ll][k]
              IN  /\ ~CodecHal_PictureIsInvalid(refPic)
                  /\ ~CodecHal_PictureIsInvalid(RefFrameList[refPic.FrameIdx])
                  /\ refPic.FrameIdx = i]

SetMin(S) == CHOOSE m \in S : \A x \in S : m <= x

\* (mutant) the position is only compared with the one right before it
EarlierSameFrameIdxAdjacent(i, used, RefFrameList) ==
    {ii \in 0..(i - 1) : ii = i - 1 /\ used[i] /\ RefFrameList[i].FrameIdx = RefFrameList[ii].FrameIdx}

\* lines 962-972: the earlier positions, used or not, valid or not, that carry
\* the FrameIdx of position i
EarlierSameFrameIdx(i, used, RefFrameList) ==
    {ii \in 0..(i - 1) : used[i] /\ RefFrameList[i].FrameIdx = RefFrameList[ii].FrameIdx}

\* lines 953-990: the walk over the positions from i on, RefIdx the next id
RECURSIVE MapRefIdx(_, _, _, _, _)
MapRefIdx(i, RefIdx, mapping, used, RefFrameList) ==
    IF i >= CODEC_MAX_NUM_REF_FRAME_HEVC
    THEN [RefIdxMapping |-> mapping, eStatus |-> "SUCCESS"]
    ELSE IF ~used[i]
    THEN MapRefIdx(i + 1, RefIdx, mapping, used, RefFrameList)
    ELSE LET dup == EarlierSameFrameIdx(i, used, RefFrameList)
         IN  IF dup # {}
             THEN MapRefIdx(i + 1, RefIdx, [mapping EXCEPT ![i] = mapping[SetMin(dup)]],
                            used, RefFrameList)
             ELSE IF RefIdx >= CODECHAL_MAX_CUR_NUM_REF_FRAME_HEVC
             THEN [RefIdxMapping |-> mapping, eStatus |-> "INVALID_PARAMETER"]
             ELSE MapRefIdx(i + 1, RefIdx + 1, [mapping EXCEPT ![i] = RefIdx],
                            used, RefFrameList)

\* lines 992-1002: the collocated reference is used and has a frame-store id
CollocatedRefPicOk(p, used, mapping) ==
    (p.CodingType # "I" /\ p.CollocatedRefPicIndex # NoCollocatedRefPic
        /\ p.CollocatedRefPicIndex < CODEC_MAX_NUM_REF_FRAME_HEVC)
    => ~(\/ ToUint8(mapping[p.CollocatedRefPicIndex]) >= CODECHAL_MAX_CUR_NUM_REF_FRAME_HEVC
         \/ ~used[p.CollocatedRefPicIndex])

\* lines 926-1007: what SetPictureStructs derives from the parameters p and
\* the status of its validation
PictureStructs(p) ==
    LET used == CurrUsedRefPic(p.RefFrameList, p.slices)
        walk == MapRefIdx(0, 0, [i \in Positions |-> 0 - 1], used, p.RefFrameList)
    IN  [bCurrUsedRefPic |-> used,
         RefIdxMapping |-> walk.RefIdxMapping,
         eStatus |-> IF walk.eStatus # "SUCCESS" THEN walk.eStatus
                     ELSE IF ~CollocatedRefPicOk(p, used, walk.RefIdxMapping)
                     THEN "INVALID_PARAMETER"
                     ELSE IF p.QpY > CODECHAL_ENCODE_HEVC_MAX_SLICE_QP
                     THEN "INVALID_PARAMETER"
                     ELSE "SUCCESS"]

\* (mutant) a reference of the same order count clears the flag
IsLaterThanCurrOrEqual(refPic, p) ==
    ~CodecHal_PictureIsInvalid(refPic) /\ p.RefFramePOCList[refPic.FrameIdx] >= p.CurrPicOrderCnt

\* lines 1311, 1326: a valid entry whose order count is above the current one
IsLaterThanCurr(refPic, p) ==
    ~CodecHal_PictureIsInvalid(refPic) /\ p.RefFramePOCList[refPic.FrameIdx] > p.CurrPicOrderCnt

\* lines 1303-1315, 1318-1330: the loop over one list, from refIdx on
RECURSIVE ScanLowDelay(_, _, _, _)
ScanLowDelay(list, refIdx, bLowDelay, p) ==
    IF ~(refIdx < Len(list) /\ bLowDelay) \/ refIdx >= CODEC_MAX_NUM_REF_FRAME_HEVC
    THEN bLowDelay
    ELSE ScanLowDelay(list, refIdx + 1,
                      IF IsLaterThanCurr(list[refIdx + 1], p) THEN FALSE ELSE bLowDelay, p)

\* ValidateLowDelayBFrame: bLowDelay after the slice
ValidateLowDelayBFrame(slc, bLowDelay, p) ==
    IF slc.slice_type = "B" /\ bLowDelay
    THEN ScanLowDelay(slc.RefPicList[2], 0, ScanLowDelay(slc.RefPicList[1], 0, bLowDelay, p), p)
    ELSE bLowDelay

\* line 1280: two valid entries that name different positions
DifferentRef(refPicL0, refPicL1) ==
    /\ ~CodecHal_PictureIsInvalid(refPicL0)
    /\ ~CodecHal_PictureIsInvalid(refPicL1)
    /\ refPicL0.FrameIdx # refPicL1.FrameIdx

\* ValidateSameRefInL0L1: bSameRefList after the slice; Len of a list is its
\* num_ref_idx_active_minus1 + 1
ValidateSameRefInL0L1(slc, bSameRefList) ==
    IF bSameRefList /\ Len(slc.RefPicList[1]) - 1 >= Len(slc.RefPicList[2]) - 1
    THEN ~\E refIdx \in 0..(Len(slc.RefPicList[2]) - 1) :
              DifferentRef(slc.RefPicList[1][refIdx + 1], slc.RefPicList[2][refIdx + 1])
    ELSE bSameRefList

\* lines 1206-1231: the loop over the slices from slcCount on
RECURSIVE ExamineSlices(_, _, _, _)
ExamineSlices(slcCount, bLowDelay, bSameRefList, p) ==
    IF slcCount >= Len(p.slices)
    THEN [bLowDelay |-> bLowDelay, bSameRefList |-> bSameRefList, eStatus |-> "SUCCESS"]
    ELSE LET slc == p.slices[slcCount + 1]
         IN  IF p.QpY + slc.slice_qp_delta > CODECHAL_ENCODE_HEVC_MAX_SLICE_QP
             THEN [bLowDelay |-> bLowDelay, bSameRefList |-> bSameRefList,
                   eStatus |-> "INVALID_PARAMETER"]
             ELSE ExamineSlices(slcCount + 1,
                                ValidateLowDelayBFrame(slc, bLowDelay, p),
                                ValidateSameRefInL0L1(slc, bSameRefList), p)

\* (mutant) the list counts as empty when no slice uses an entry of it
EmptyRefFrmListUnused(p) ==
    \A i \in Positions : ~CurrUsedRefPic(p.RefFrameList, p.slices)[i]

\* lines 1064-1072: emptyRefFrmList, no entry of RefFrameList is valid
EmptyRefFrmList(p) ==
    \A i \in Positions : CodecHal_PictureIsInvalid(p.RefFrameList[i])

\* lines 1062-1078: P/B frames with empty ref lists are encoded as I frames
PictureCodingType(p) ==
    IF EmptyRefFrmList(p) /\ p.CodingType # "I" THEN "I" ELSE p.CodingType

\* lines 1080-1113: PicIdx[i].bValid, the valid entries of RefFrameList that
\* no earlier entry with bValid set repeats; an earlier valid entry of the
\* same FrameIdx is itself bValid or repeats one that is, so bValid is set at
\* the first valid entry of each FrameIdx
PicIdxValid(p) ==
    [i \in Positions |->
        /\ ~CodecHal_PictureIsInvalid(p.RefFrameList[i])
        /\ ~\E ii \in 0..(i - 1) :
               /\ ~CodecHal_PictureIsInvalid(p.RefFrameList[ii])
               /\ p.RefFrameList[i].FrameIdx = p.RefFrameList[ii].FrameIdx]

\* SetHcpPipeBufAddrParams: the indices of presReferences and of
\* presColMvTempBuffer written for the picture p that SetPictureStructs
\* accepted, frameStoreId = (uint8_t)RefIdxMapping[i]
SetHcpPipeBufAddrParams(p) ==
    IF p.m_pictureCodingType # "I"
    THEN {ToUint8(p.RefIdxMapping[i]) :
             i \in {j \in Positions : PicIdxValid(p)[j] /\ p.bCurrUsedRefPic[j]}}
    ELSE {}

\* (mutant) rate control is not looked at
WaitForPakIgnoresBrc(p) ==
    ~(\/ p.m_firstFrame
      \/ p.bUseRawPicForRef
      \/ p.CodingType = "I"
      \/ ~p.prevUsedAsRef)

\* lines 1020-1034, "Sync initialize": m_waitForPak for the picture p;
\* prevUsedAsRef is bUsedAsRef of the reference list entry of the previously
\* reconstructed picture
WaitForPak(p) ==
    ~(\/ p.m_firstFrame
      \/ (~p.bBrcEnabled /\ p.bUseRawPicForRef)
      \/ (~p.bBrcEnabled /\ p.CodingType = "I")
      \/ (~p.bBrcEnabled /\ ~p.prevUsedAsRef))

\* m_trackedBuf->SetAllocationFlag(flag): the flag AllocateForCurrFrame reads
\* as m_allocateMbCode
SetAllocationFlag(cfg, flag) == [cfg EXCEPT !.allocateMbCode = flag]

\* lines 1129-1131: the codec functions whose MbCode surface the pool allocates
AllocatesMbCode(codecFunction) == codecFunction \in {"ENC_PAK", "ENC_VDENC_PAK"}

\* SetPictureStructs on the parameters of the picture; of the tracked buffers
\* it touches the allocation flag only, once its own checks have passed
SetPictureStructs ==
    /\ pic.step = "params"
    /\ pic' = [pic EXCEPT !.step = "SetPictureStructs",
                          !.bCurrUsedRefPic = PictureStructs(pic).bCurrUsedRefPic,
                          !.RefIdxMapping = PictureStructs(pic).RefIdxMapping,
                          !.m_pictureCodingType =
                              IF PictureStructs(pic).eStatus = "SUCCESS"
                              THEN PictureCodingType(pic) ELSE @,
                          !.m_waitForPak =
                              IF PictureStructs(pic).eStatus = "SUCCESS"
                              THEN WaitForPak(pic) ELSE @,
                          !.eStatus = PictureStructs(pic).eStatus]
    /\ config' = IF PictureStructs(pic).eStatus = "SUCCESS" /\ AllocatesMbCode(pic.codecFunction)
                 THEN SetAllocationFlag(config, TRUE)
                 ELSE config
    /\ UNCHANGED <<poolVars, call, fault, hist>>

\* SetSliceStructs, called when SetPictureStructs succeeded
SetSliceStructs ==
    /\ pic.step = "SetPictureStructs"
    /\ pic.eStatus = "SUCCESS"
    /\ pic' = [pic EXCEPT !.step = "SetSliceStructs",
                          !.bLowDelay = ExamineSlices(0, TRUE, TRUE, pic).bLowDelay,
                          !.bSameRefList = ExamineSlices(0, TRUE, TRUE, pic).bSameRefList,
                          !.eStatus = ExamineSlices(0, TRUE, TRUE, pic).eStatus]
    /\ UNCHANGED <<poolVars, config, call, fault, hist>>

NextPic == SetPictureStructs \/ SetSliceStructs

(***************************************************************************)
(* The parameters of a picture                                             *)
(***************************************************************************)
\* a candidate list: the entries of seq, then invalid entries
Pad(seq) == [i \in Positions |-> IF i < Len(seq) THEN seq[i + 1] ELSE InvalidPic]

Slice(type, l0, l1, qpDelta) ==
    [slice_type |-> type, RefPicList |-> <<l0, l1>>, slice_qp_delta |-> qpDelta]

\* the picture before SetPictureStructs: the parameters of the application,
\* the derived members not yet set for this picture
Params(refFrameList, pocList, currPoc, collocated, slices) ==
    [step |-> "params",
     RefFrameList |-> refFrameList,
     RefFramePOCList |-> pocList,
     CurrPicOrderCnt |-> currPoc,
     CodingType |-> "B",
     CollocatedRefPicIndex |-> collocated,
     QpY |-> 26,
     codecFunction |-> "ENC_PAK",
     m_firstFrame |-> FALSE,
     bBrcEnabled |-> FALSE,
     bUseRawPicForRef |-> FALSE,
     prevUsedAsRef |-> TRUE,
     slices |-> slices,
     bCurrUsedRefPic |-> [i \in Positions |-> FALSE],
     RefIdxMapping |-> [i \in Positions |-> 0 - 1],
     m_pictureCodingType |-> "unset",
     m_waitForPak |-> TRUE,
     bLowDelay |-> TRUE,
     bSameRefList |-> TRUE,
     eStatus |-> "SUCCESS"]

\* the entries a slice list is drawn from: the first three positions, or invalid
SliceEntries == {FramePic(0), FramePic(1), FramePic(2), InvalidPic}

\* the slice lists of up to n entries
RefLists(n) == UNION {[1..k -> SliceEntries] : k \in 1..n}

(***************************************************************************)
(* SpecPic: SetPictureStructs, then SetSliceStructs, on                    *)
(*   - every candidate list of three entries, valid or not, over FrameIds, *)
(*     with one slice of every pair of lists over the three positions;     *)
(*   - the list [A, B, A, C], all four positions used;                     *)
(*   - lists of ten entries of ten surfaces, the second entry optionally   *)
(*     the surface of the first, the first entry optionally invalid, and a *)
(*     slice that uses the positions lo..hi;                               *)
(*   - intra and non-intra pictures with three candidates, a slice using   *)
(*     one of them, and a collocated index inside the candidates, past     *)
(*     them, at and past the end of the list, or not given.                *)
(***************************************************************************)
CandidateEntries == [FrameIdx : FrameIds, PicFlags : {"frame", "invalid"}]

PastPOCs == [i \in Positions |-> 0]

SmallPictures ==
    {Params(Pad(<<a, b, c>>), PastPOCs, 1, collocated, <<Slice("B", l0, l1, 0)>>) :
        a \in CandidateEntries, b \in CandidateEntries, c \in CandidateEntries,
        collocated \in {NoCollocatedRefPic, 0},
        l0 \in RefLists(MaxRefs), l1 \in RefLists(1)}

ListABAC == Pad(<<FramePic(5), FramePic(6), FramePic(5), FramePic(7)>>)

ExamplePicture ==
    Params(ListABAC, PastPOCs, 1, NoCollocatedRefPic,
           <<Slice("B", <<FramePic(0), FramePic(1), FramePic(2), FramePic(3)>>, <<FramePic(0)>>, 0)>>)

LongList(firstValid, secondRepeatsFirst) ==
    Pad([k \in 1..10 |->
            IF k = 1 THEN [FrameIdx |-> 10, PicFlags |-> IF firstValid THEN "frame" ELSE "invalid"]
            ELSE IF k = 2 /\ secondRepeatsFirst THEN FramePic(10)
            ELSE FramePic(9 + k)])

LongPictures ==
    {Params(LongList(firstValid, secondRepeatsFirst), PastPOCs, 1, NoCollocatedRefPic,
            <<Slice("B", [k \in 1..(hi - lo + 1) |-> FramePic(lo + k - 1)], <<FramePic(lo)>>, 0)>>) :
        firstValid \in BOOLEAN, secondRepeatsFirst \in BOOLEAN, lo \in {0, 1}, hi \in {8, 9}}

CollocatedIndices ==
    {0, 1, 2, 3, CODEC_MAX_NUM_REF_FRAME_HEVC - 1, CODEC_MAX_NUM_REF_FRAME_HEVC,
     NoCollocatedRefPic - 1, NoCollocatedRefPic}

CollocatedPictures ==
    {[Params(Pad(<<FramePic(0), FramePic(1), FramePic(2)>>), PastPOCs, 1, collocated,
             <<Slice(type, l0, <<FramePic(0)>>, 0)>>) EXCEPT !.CodingType = type] :
        collocated \in CollocatedIndices, type \in {"I", "B"}, l0 \in RefLists(1)}

InitPic ==
    /\ PoolInit
    /\ config = NoAllocConfig
    /\ hist = {}
    /\ pic \in SmallPictures \cup {ExamplePicture} \cup LongPictures \cup CollocatedPictures

SpecPic == InitPic /\ [][NextPic]_vars

(***************************************************************************)
(* SpecSlice: SetPictureStructs, then SetSliceStructs, on three candidates *)
(* of the order counts before, equal to and after the current picture's,   *)
(* with one slice of every type and every pair of lists, or with two       *)
(* slices of every type and every pair of lists of one entry, the second   *)
(* slice with a legal or an illegal QP delta, or with a picture QP and a    *)
(* slice QP delta below, inside and above the legal range, the MbCode      *)
(* surface allocated by the pool or given by the application, or the first *)
(* and later pictures of a sequence with the inputs of m_waitForPak.       *)
(***************************************************************************)
SliceTypes == {"I", "P", "B"}

ThreeCandidates == Pad(<<FramePic(0), FramePic(1), FramePic(2)>>)

\* CurrPicOrderCnt is 4
OrderCounts == [i \in Positions |-> IF i = 0 THEN 3 ELSE IF i = 1 THEN 4 ELSE IF i = 2 THEN 5 ELSE 0]

OneSlice ==
    {<<Slice(t, l0, l1, 0)>> : t \in SliceTypes, l0 \in RefLists(MaxRefs), l1 \in RefLists(MaxRefs)}

TwoSlices ==
    {<<Slice(t, l0, l1, 0), Slice(u, m0, m1, d)>> :
        t \in SliceTypes, l0 \in RefLists(1), l1 \in RefLists(1),
        u \in SliceTypes, m0 \in RefLists(1), m1 \in RefLists(1), d \in {0, 26}}

\* the least slice QP of the format
MinSliceQp == 0

PictureQps == {5, 26, CODECHAL_ENCODE_HEVC_MAX_SLICE_QP, CODECHAL_ENCODE_HEVC_MAX_SLICE_QP + 1}

SliceQpDeltas == {0 - 30, 0, 26}

QpPictures ==
    {[Params(ThreeCandidates, OrderCounts, 4, NoCollocatedRefPic,
             <<Slice("B", <<FramePic(0)>>, <<FramePic(0)>>, d),
               Slice(t, <<FramePic(0)>>, <<FramePic(1)>>, e)>>)
        EXCEPT !.QpY = q, !.codecFunction = f] :
        q \in PictureQps, d \in SliceQpDeltas, e \in SliceQpDeltas,
        t \in {"P", "B"}, f \in {"ENC_PAK", "ENC"}}

\* the first and the later pictures of a sequence, of every coding type,
\* with and without rate control, raw references and a previous picture used
\* as reference, m_waitForPak as the picture before left it
SyncPictures ==
    {[Params(ThreeCandidates, OrderCounts, 4, NoCollocatedRefPic,
             <<Slice(t, <<FramePic(0)>>, <<FramePic(0)>>, 0)>>)
        EXCEPT !.CodingType = t, !.m_firstFrame = first, !.bBrcEnabled = brc,
               !.bUseRawPicForRef = raw, !.prevUsedAsRef = prevRef,
               !.m_waitForPak = wait] :
        t \in SliceTypes, first \in BOOLEAN, brc \in BOOLEAN, raw \in BOOLEAN,
        prevRef \in BOOLEAN, wait \in BOOLEAN}

InitSlice ==
    /\ PoolInit
    /\ config = NoAllocConfig
    /\ hist = {}
    /\ pic \in {Params(ThreeCandidates, OrderCounts, 4, NoCollocatedRefPic, slices) :
                    slices \in OneSlice \cup TwoSlices} \cup QpPictures \cup SyncPictures

SpecSlice == InitSlice /\ [][NextPic]_vars

(***************************************************************************)
(* Claims on the bindings (Spec)                                           *)
(***************************************************************************)
\* C1 (as stated): no two slots of the table are bound to the same real frame
\* identity
C1_NoAliasingAnySlot ==
    \A i \in Slots : \A j \in Slots :
        (i # j /\ IsRealIdentity(m_trackedBuffer[i])) => m_trackedBuffer[i] # m_trackedBuffer[j]

\* C1 (amended): no two slots of the reference region are bound to the same
\* real frame identity, no picture naming itself in its candidate list
C1_NoAliasingRefRegion ==
    \A i \in RefSlots : \A j \in RefSlots :
        (i # j /\ IsRealIdentity(m_trackedBuffer[i])) => m_trackedBuffer[i] # m_trackedBuffer[j]

\* a reference allocation has reused a slot while another reference slot is
\* bound, and a ring slot carries the identity of a reference slot
C1_Witness ==
    /\ call.op = "alloc" /\ call.refPolicy /\ call.ok
    /\ \E i \in RefSlots : \E j \in RefSlots :
          /\ i < j /\ m_trackedBufCurrIdx = i
          /\ IsRealIdentity(m_trackedBuffer[i]) /\ IsRealIdentity(m_trackedBuffer[j])
    /\ \E i \in RefSlots : \E k \in NonRefSlots :
          IsRealIdentity(m_trackedBuffer[i]) /\ m_trackedBuffer[k] = m_trackedBuffer[i]

C3_WaitIffThirdInARow ==
    (call.op = "alloc" /\ call.ok)
    => (m_waitForTrackedBuffer <=>
          (~call.refPolicy /\ hist.run >= CODEC_NUM_NON_REF_BUFFERS))

\* C3 (amended): the flag of a call that selected a slot is true exactly when
\* the call is a non-reference allocation and at least the third
\* non-reference allocation since the last one made with m_waitForPak set
C3_WaitIffThirdSinceSync ==
    (call.op = "alloc" /\ m_trackedBufCurrIdx < CODEC_NUM_TRACKED_BUFFERS)
    => (m_waitForTrackedBuffer <=>
          (~call.refPolicy /\ hist.sync >= CODEC_NUM_NON_REF_BUFFERS))

\* the flag is raised by a non-reference allocation whose run a reference
\* allocation broke
C3_Witness ==
    /\ call.op = "alloc" /\ call.ok /\ ~call.refPolicy
    /\ m_waitForTrackedBuffer
    /\ hist.run < CODEC_NUM_NON_REF_BUFFERS
    /\ hist.sync >= CODEC_NUM_NON_REF_BUFFERS

\* C10: every three AllocateForCurrFrame calls in a row that use the
\* non-reference policy select each slot of the ring exactly once, whatever
\* m_waitForPak was
C10_RingFairness ==
    hist.streak >= CODEC_NUM_NON_REF_BUFFERS
    => /\ Len(hist.picks) = CODEC_NUM_NON_REF_BUFFERS
       /\ {hist.picks[k] : k \in 1..Len(hist.picks)} = NonRefSlots

\* three non-reference allocations in a row, one of them with m_waitForPak
C10_Witness ==
    /\ hist.streak >= CODEC_NUM_NON_REF_BUFFERS
    /\ hist.run < CODEC_NUM_NON_REF_BUFFERS
    /\ m_trackedBufCurrIdx = CODEC_NUM_REF_BUFFERS

(***************************************************************************)
(* Claims on the deferred release (SpecResize)                             *)
(***************************************************************************)
\* slot snap[k] of the last Resize is still PendingResize and holds the
\* resources it held when Resize was called
StillProtected(k) ==
    hist.snap[k] \in Slots
    => /\ m_trackedBuffer[hist.snap[k]] = PICTURE_RESIZE
       /\ hist.res[k] \subseteq resources[hist.snap[k]]

\* the slots Resize did not protect are Unbound and hold nothing when it returns
OthersReleasedAtResize ==
    hist.sinceResize = 0
    => \A i \in Slots :
          (i # hist.snap[1] /\ i # hist.snap[2] /\ i # hist.snap[3])
          => (m_trackedBuffer[i] = PICTURE_MAX_7BITS /\ resources[i] = {})

C5_ResizeCompletion ==
    hist.sinceResize = CODEC_NUM_NON_REF_BUFFERS
    => /\ m_trackedBufCountResize = 0
       /\ \A i \in Slots : m_trackedBuffer[i] # PICTURE_RESIZE

\* three calls after a Resize whose prevIdx and currIdx were the same slot,
\* so that the second call released nothing
C5_Witness ==
    /\ hist.sinceResize = CODEC_NUM_NON_REF_BUFFERS
    /\ hist.snap[2] = hist.snap[3]
    /\ hist.snap[1] # hist.snap[2]
    /\ hist.res[3] # {}

(***************************************************************************)
(* Claims on the picture set-up (SpecPic, SpecSlice)                       *)
(***************************************************************************)
\* C6: when SetPictureStructs succeeds, two active positions of RefFrameList
\* with the same FrameIdx have the same value in RefIdxMapping, and the list
\* [A, B, A, C] with its four positions active is mapped to 0, 1, 0, 2
C6_DedupCorrectness ==
    (pic.step = "SetPictureStructs" /\ pic.eStatus = "SUCCESS")
    => /\ \A i \in Positions, j \in Positions :
             (/\ pic.bCurrUsedRefPic[i]
              /\ pic.bCurrUsedRefPic[j]
              /\ pic.RefFrameList[i].FrameIdx = pic.RefFrameList[j].FrameIdx)
             => pic.RefIdxMapping[i] = pic.RefIdxMapping[j]
       /\ (pic.RefFrameList = ListABAC /\ \A i \in 0..3 : pic.bCurrUsedRefPic[i])
          => /\ pic.RefIdxMapping[0] = 0
             /\ pic.RefIdxMapping[1] = 1
             /\ pic.RefIdxMapping[2] = 0
             /\ pic.RefIdxMapping[3] = 2

\* SetPictureStructs succeeded on [A, B, A, C], the four positions active
C6_Witness ==
    /\ pic.step = "SetPictureStructs"
    /\ pic.eStatus = "SUCCESS"
    /\ pic.RefFrameList = ListABAC
    /\ \A i \in 0..3 : pic.bCurrUsedRefPic[i]
    /\ pic.RefIdxMapping[2] = pic.RefIdxMapping[0]
    /\ pic.RefIdxMapping[3] = 2

\* the surfaces of the active positions
ActiveIdentities == {pic.RefFrameList[i].FrameIdx : i \in {j \in Positions : pic.bCurrUsedRefPic[j]}}

\* C7: a picture whose active positions name more than 8 surfaces is rejected
\* by SetPictureStructs, and the tracked buffers are as they were
C7_CapacityRejection ==
    (pic.step = "SetPictureStructs"
        /\ Cardinality(ActiveIdentities) > CODECHAL_MAX_CUR_NUM_REF_FRAME_HEVC)
    => /\ pic.eStatus = "INVALID_PARAMETER"
       /\ m_trackedBuffer = [i \in Slots |-> PICTURE_MAX_7BITS]
       /\ m_trackedBufCurrIdx = 0 /\ m_trackedBufPenuIdx = 0 /\ m_trackedBufAnteIdx = 0
       /\ m_trackedBufNonRefIdx = 0
       /\ m_trackedBufCountNonRef = 0 /\ m_trackedBufCountResize = 0

\* C8: after SetSliceStructs examined all slices, bLowDelay is true iff no
\* valid entry of the forward or backward list of a B slice has an order count
\* above the one of the current picture
C8_LowDelayDetection ==
    (pic.step = "SetSliceStructs" /\ pic.eStatus = "SUCCESS")
    => (pic.bLowDelay
        <=> ~\E s \in 1..Len(pic.slices), ll \in 1..2 :
               /\ pic.slices[s].slice_type = "B"
               /\ \E k \in 1..Len(pic.slices[s].RefPicList[ll]) :
                     /\ pic.slices[s].RefPicList[ll][k].PicFlags # "invalid"
                     /\ pic.RefFramePOCList[pic.slices[s].RefPicList[ll][k].FrameIdx]
                           > pic.CurrPicOrderCnt)

\* a P slice with a later reference, then a B slice whose backward list holds
\* a later reference: the flag is cleared
C8_Witness ==
    /\ pic.step = "SetSliceStructs"
    /\ pic.eStatus = "SUCCESS"
    /\ Len(pic.slices) = 2
    /\ pic.slices[1].slice_type = "P"
    /\ pic.slices[1].RefPicList[1] = <<FramePic(2)>>
    /\ pic.slices[2].slice_type = "B"
    /\ pic.slices[2].RefPicList[1] = <<FramePic(1)>>
    /\ pic.slices[2].RefPicList[2] = <<FramePic(2)>>
    /\ ~pic.bLowDelay

ShorterLen(slc) ==
    IF Len(slc.RefPicList[1]) <= Len(slc.RefPicList[2])
    THEN Len(slc.RefPicList[1]) ELSE Len(slc.RefPicList[2])

\* C9: after SetSliceStructs examined all slices, bSameRefList is true iff in
\* every slice the two lists name the same frame at every index below the
\* length of the shorter list, whichever list that is
C9_SameListDetection ==
    (pic.step = "SetSliceStructs" /\ pic.eStatus = "SUCCESS")
    => (pic.bSameRefList
        <=> \A s \in 1..Len(pic.slices) :
               \A k \in 1..ShorterLen(pic.slices[s]) :
                  ~(/\ pic.slices[s].RefPicList[1][k].PicFlags # "invalid"
                    /\ pic.slices[s].RefPicList[2][k].PicFlags # "invalid"
                    /\ pic.slices[s].RefPicList[1][k].FrameIdx
                          # pic.slices[s].RefPicList[2][k].FrameIdx))

(***************************************************************************)
(* C11 to C13 and C20: the counter, the failed selection and the three     *)
(* last indices, under SpecCount.                                          *)
(***************************************************************************)

\* C11 as stated: after a reference-policy allocation that selected a slot
\* m_trackedBufCountNonRef is 0 and m_waitForTrackedBuffer is false; in the
\* sequence ref, non-ref, non-ref, non-ref, ref from construction without
\* m_waitForPak the third non-reference call is the first to set the flag
\* and after the last call the counter is 0.
C11_RefAllocationResetsCounter ==
    /\ (call.op = "alloc" /\ call.refPolicy /\ m_trackedBufCurrIdx \in Slots)
          => (m_trackedBufCountNonRef = 0 /\ ~m_waitForTrackedBuffer)
    /\ hist.script \in 1..3 => ~m_waitForTrackedBuffer
    /\ hist.script = 4 => m_waitForTrackedBuffer
    /\ hist.script = 5 => m_trackedBufCountNonRef = 0

\* C11 amended: a reference-policy allocation that selects a slot leaves
\* m_trackedBufCountNonRef as it was and sets m_waitForTrackedBuffer to
\* false; in the sequence ref, non-ref, non-ref, non-ref, ref from
\* construction without m_waitForPak the third non-reference call is the
\* first to set the flag and after the last call the counter is still 3 and
\* the flag false.
C11_RefAllocationKeepsCounter ==
    [][ /\ (call'.op = "alloc" /\ call'.refPolicy /\ fault' # "crash"
             /\ m_trackedBufCurrIdx' \in Slots)
              => (m_trackedBufCountNonRef' = m_trackedBufCountNonRef
                  /\ ~m_waitForTrackedBuffer')
        /\ hist'.script \in 1..3 => ~m_waitForTrackedBuffer'
        /\ hist'.script = 4 => m_waitForTrackedBuffer'
        /\ hist'.script = 5 =>
              (m_trackedBufCountNonRef' = CODEC_NUM_NON_REF_BUFFERS
               /\ ~m_waitForTrackedBuffer') ]_vars

C11_Witness ==
    /\ hist.script = 5
    /\ call.op = "alloc" /\ call.refPolicy /\ call.ok
    /\ m_trackedBufCurrIdx \in RefSlots
    /\ m_trackedBufCountNonRef = CODEC_NUM_NON_REF_BUFFERS
    /\ ~m_waitForTrackedBuffer

\* C12: a reference-policy allocation for which LookUpBufIndex finds no
\* slot fails and leaves the identity of every slot as it was before the
\* call.
C12_NoSlotAvailable ==
    [][ (call'.op = "alloc" /\ call'.refPolicy /\ m_trackedBufCurrIdx' \notin Slots)
          => (~call'.ok /\ m_trackedBuffer' = m_trackedBuffer) ]_vars

C12_Witness ==
    /\ call.op = "alloc" /\ call.refPolicy /\ ~call.ok
    /\ m_trackedBufCurrIdx \notin Slots
    /\ fault = "none"
    /\ \A i \in RefSlots : m_trackedBuffer[i] = 0

\* C13: the three last indices always name a slot of the table and no call
\* reads or writes outside the table.
C13_PoolValidAfterError ==
    /\ m_trackedBufCurrIdx \in Slots
    /\ m_trackedBufPenuIdx \in Slots
    /\ m_trackedBufAnteIdx \in Slots
    /\ fault = "none"

\* C20 as stated: once three allocation calls have been made, the three last
\* indices are pairwise distinct after every successful allocation.
C20_DistinctAfterThreeFrames ==
    (Len(hist.picks) >= 3 /\ call.op = "alloc" /\ call.ok)
      => /\ m_trackedBufCurrIdx # m_trackedBufPenuIdx
         /\ m_trackedBufCurrIdx # m_trackedBufAnteIdx
         /\ m_trackedBufPenuIdx # m_trackedBufAnteIdx

\* C20 amended: after three non-reference allocations in a row the three
\* last indices are pairwise distinct.
C20_DistinctAfterThreeNonRef ==
    (hist.streak >= 3 /\ call.op = "alloc")
      => /\ m_trackedBufCurrIdx # m_trackedBufPenuIdx
         /\ m_trackedBufCurrIdx # m_trackedBufAnteIdx
         /\ m_trackedBufPenuIdx # m_trackedBufAnteIdx

C20_Witness ==
    /\ hist.streak >= 3
    /\ call.op = "alloc" /\ call.ok
    /\ {m_trackedBufCurrIdx, m_trackedBufPenuIdx, m_trackedBufAnteIdx} = NonRefSlots

(***************************************************************************)
(* C15 to C17: the creation of the resources (SpecAlloc)                   *)
(***************************************************************************)

\* C15: an AllocateForCurrFrame call in which the allocator could not make a
\* resource of the current frame reports failure.
C15_AllocationFailurePropagates ==
    (call.op = "alloc" /\ call.failed # "none") => ~call.ok

\* C16 as stated: every resource an AllocateForCurrFrame call makes is made
\* zero-filled.
C16_EveryKindZeroFilled ==
    call.op = "alloc" => call.created \subseteq call.zeroed

\* C16 amended: the MbCode and MV data buffers an AllocateForCurrFrame call
\* makes are made zero-filled; the 4x and 8x downscaled reconstructed
\* surfaces are made without zero-fill.
C16_BuffersZeroFilled ==
    call.op = "alloc" =>
        /\ call.created \cap {"mbCode", "mvData"} \subseteq call.zeroed
        /\ call.zeroed \cap {"ds4xRecon", "ds8xRecon"} = {}

C16_Witness ==
    /\ call.op = "alloc" /\ call.ok
    /\ {"mbCode", "mvData", "ds4xRecon", "ds8xRecon"} \subseteq call.created
    /\ {"mbCode", "mvData"} \subseteq call.zeroed

C18_CollocatedValidated ==
    (/\ pic.step = "SetPictureStructs"
     /\ pic.CodingType # "I"
     /\ pic.CollocatedRefPicIndex # NoCollocatedRefPic
     /\ pic.eStatus = "SUCCESS")
    => /\ pic.CollocatedRefPicIndex \in Positions
       /\ pic.bCurrUsedRefPic[pic.CollocatedRefPicIndex]
       /\ pic.RefIdxMapping[pic.CollocatedRefPicIndex]
              \in 0..(CODECHAL_MAX_CUR_NUM_REF_FRAME_HEVC - 1)

(***************************************************************************)
(* C14 and C19: the rejected picture (SpecSlice)                           *)
(***************************************************************************)

\* C14: when SetPictureStructs or SetSliceStructs has returned an error for
\* the picture, the tracked buffers are as they were before the picture: the
\* table, the three last indices, the counters, the ring cursor and the
\* allocation flag.
C14_RejectionLeavesPoolUntouched ==
    (pic.step \in {"SetPictureStructs", "SetSliceStructs"} /\ pic.eStatus # "SUCCESS")
    => (PoolInit /\ config = NoAllocConfig)

\* C19: a picture whose QpY, or QpY plus the slice_qp_delta of one of its
\* slices, is below the least or above the greatest slice QP is rejected by
\* SetPictureStructs or by SetSliceStructs.
C19_QpRangeChecked ==
    /\ (pic.step = "SetPictureStructs"
         /\ (pic.QpY < MinSliceQp \/ pic.QpY > CODECHAL_ENCODE_HEVC_MAX_SLICE_QP))
        => pic.eStatus = "INVALID_PARAMETER"
    /\ (pic.step = "SetSliceStructs"
         /\ \E k \in 1..Len(pic.slices) :
               \/ pic.QpY + pic.slices[k].slice_qp_delta < MinSliceQp
               \/ pic.QpY + pic.slices[k].slice_qp_delta > CODECHAL_ENCODE_HEVC_MAX_SLICE_QP)
        => pic.eStatus = "INVALID_PARAMETER"

(***************************************************************************)
(* C21: the coding type of the picture (SpecPic)                           *)
(***************************************************************************)

\* C21 as stated: a P or B picture SetPictureStructs accepts whose slices
\* use no valid candidate is coded as an I picture, also when RefFrameList
\* holds valid entries.
C21_EmptyActiveSetMeansIntra ==
    (/\ pic.step = "SetPictureStructs" /\ pic.eStatus = "SUCCESS"
     /\ pic.CodingType # "I"
     /\ \A i \in Positions : ~pic.bCurrUsedRefPic[i])
    => pic.m_pictureCodingType = "I"

\* C21 amended: a P or B picture SetPictureStructs accepts is coded as an I
\* picture exactly when RefFrameList holds no valid entry; a picture whose
\* slices use no candidate while RefFrameList holds a valid entry keeps its
\* coding type.
C21_EmptyCandidateListMeansIntra ==
    (/\ pic.step = "SetPictureStructs" /\ pic.eStatus = "SUCCESS"
     /\ pic.CodingType # "I")
    => IF \A i \in Positions : pic.RefFrameList[i].PicFlags = "invalid"
       THEN pic.m_pictureCodingType = "I"
       ELSE pic.m_pictureCodingType = pic.CodingType

C21_Witness ==
    /\ pic.step = "SetPictureStructs" /\ pic.eStatus = "SUCCESS"
    /\ pic.CodingType = "B"
    /\ \A i \in Positions : pic.RefFrameList[i].PicFlags = "invalid"
    /\ pic.m_pictureCodingType = "I"

(***************************************************************************)
(* C22 and C23: the selection and the reclamation of the reference policy  *)
(* (Spec)                                                                  *)
(***************************************************************************)

\* C22: a reference-policy allocation that selects a slot selects a slot of
\* the reference region that was neither PendingResize nor bound to an identity
\* of the candidate list when LookUpBufIndex scanned it, every slot below it
\* being PendingResize or bound to an identity of the list, and leaves it
\* bound to the identity of the reconstructed picture.
C22_RefPolicySelection ==
    [][ (call'.op = "alloc" /\ call'.refPolicy /\ fault' # "crash"
           /\ m_trackedBufCurrIdx' \in Slots)
        => /\ m_trackedBufCurrIdx' \in RefSlots
           /\ m_trackedBuffer'[m_trackedBufCurrIdx'] = call'.frameIdx
           /\ m_trackedBuffer[m_trackedBufCurrIdx'] \notin hist'
           /\ m_trackedBuffer[m_trackedBufCurrIdx'] = PICTURE_RESIZE
                 => (m_trackedBufCountResize > 0
                     /\ m_trackedBufCurrIdx' = m_trackedBufAnteIdx)
           /\ \A j \in RefSlots :
                 j < m_trackedBufCurrIdx'
                 => m_trackedBuffer'[j] \in hist' \cup {PICTURE_RESIZE} ]_vars

\* a reference allocation has selected a slot above a PendingResize slot and a
\* slot bound to a listed identity, the slot selected bound before and reclaimed
C22_Witness ==
    /\ call.op = "alloc" /\ call.refPolicy /\ call.ok
    /\ m_trackedBufCurrIdx \in RefSlots
    /\ m_trackedBuffer[m_trackedBufCurrIdx] = call.frameIdx
    /\ \E j \in RefSlots, k \in RefSlots :
          /\ j < m_trackedBufCurrIdx /\ k < m_trackedBufCurrIdx
          /\ m_trackedBuffer[j] = PICTURE_RESIZE
          /\ m_trackedBuffer[k] \in hist

\* C23: after a reference-policy allocation no slot of the reference region
\* but the one selected is bound to a real identity that is not in the
\* candidate list of the call.
C23_ReclamationComplete ==
    (call.op = "alloc" /\ call.refPolicy)
    => \A j \in RefSlots :
          (j # m_trackedBufCurrIdx /\ IsRealIdentity(m_trackedBuffer[j]))
          => m_trackedBuffer[j] \in hist

\* a reference allocation has left a slot above the selected one unbound that
\* the call before had bound
C23_Witness ==
    /\ call.op = "alloc" /\ call.refPolicy /\ call.ok
    /\ m_trackedBufCurrIdx \in RefSlots
    /\ m_trackedBufPenuIdx \in RefSlots
    /\ m_trackedBufPenuIdx > m_trackedBufCurrIdx
    /\ m_trackedBuffer[m_trackedBufPenuIdx] = PICTURE_MAX_7BITS
    /\ m_trackedBufCountResize = 0

(***************************************************************************)
(* C24: the resources of a reclaimed slot (SpecResize)                     *)
(***************************************************************************)

\* C24 as stated: a slot of the reference region that is unbound holds no
\* resource, and the slot a reference-policy allocation selects holds no
\* resource when the allocation of its resources begins.
C24_ReclaimReleasesResources ==
    /\ \A s \in RefSlots : m_trackedBuffer[s] = PICTURE_MAX_7BITS => resources[s] = {}
    /\ (call.op = "alloc" /\ call.refPolicy) => call.held = {}

\* C24 amended: an AllocateForCurrFrame call destroys no resource of a slot it
\* reclaims: every slot keeps the resources it holds, but the slot prevPrevIdx
\* when the resize counter is above 0 and the slot differs from prevIdx and
\* currIdx (the deferred release).
C24_ReclaimKeepsResources ==
    [][ (call'.op = "alloc" /\ fault' # "crash")
        => \A s \in Slots :
              ~(/\ m_trackedBufCountResize > 0
                /\ s = m_trackedBufAnteIdx
                /\ m_trackedBufAnteIdx # m_trackedBufPenuIdx
                /\ m_trackedBufAnteIdx # m_trackedBufCurrIdx)
              => resources[s] \subseteq resources'[s] ]_vars

\* outside of a resize, a reference allocation has selected a slot that held
\* resources, and another reference slot is unbound and holds resources
C24_Witness ==
    /\ call.op = "alloc" /\ call.refPolicy /\ call.ok
    /\ hist.sinceResize = NoResize
    /\ m_trackedBufCountResize = 0
    /\ call.held # {}
    /\ \E s \in RefSlots :
          /\ s # m_trackedBufCurrIdx
          /\ m_trackedBuffer[s] = PICTURE_MAX_7BITS
          /\ resources[s] # {}

(***************************************************************************)
(* C25: the state Resize leaves (SpecAlloc)                                *)
(***************************************************************************)

\* C25: when Resize returns, the resize counter is 3, each of the slots
\* currIdx, prevIdx and prevPrevIdx is PendingResize, and every other slot is
\* unbound and holds no resource of any kind.
C25_ResizeImmediateEffect ==
    call.op = "resize"
    => /\ m_trackedBufCountResize = CODEC_NUM_NON_REF_BUFFERS
       /\ \A s \in Slots :
             IF s \in {m_trackedBufAnteIdx, m_trackedBufPenuIdx, m_trackedBufCurrIdx}
             THEN m_trackedBuffer[s] = PICTURE_RESIZE
             ELSE m_trackedBuffer[s] = PICTURE_MAX_7BITS /\ resources[s] = {}

(***************************************************************************)
(* C26: the step of the deferred release (SpecResize)                      *)
(***************************************************************************)
\* the call has released the slot prevPrevIdx named at its entry: the slot is
\* left unbound without resources, or the call has selected it for its frame
\* and found it without resources
AnteReleased ==
    IF m_trackedBufCurrIdx' = m_trackedBufAnteIdx
    THEN call'.held = {}
    ELSE /\ m_trackedBuffer'[m_trackedBufAnteIdx] = PICTURE_MAX_7BITS
         /\ resources'[m_trackedBufAnteIdx] = {}

\* the call has released nothing: every slot keeps its resources, and a
\* PendingResize slot stays so unless the call has selected it
NothingReleased ==
    \A s \in Slots :
       /\ resources[s] \subseteq resources'[s]
       /\ (m_trackedBuffer[s] = PICTURE_RESIZE /\ s # m_trackedBufCurrIdx')
             => m_trackedBuffer'[s] = PICTURE_RESIZE

C27_CounterRule ==
    [][ /\ (call'.op = "alloc" /\ ~call'.refPolicy /\ fault' # "crash")
            => m_trackedBufCountNonRef' =
                  IF hist'.waitForPak THEN 0
                  ELSE IF m_trackedBufCountNonRef = CODEC_NUM_NON_REF_BUFFERS
                       THEN m_trackedBufCountNonRef
                       ELSE m_trackedBufCountNonRef + 1
        /\ m_trackedBufCountNonRef' \in 0..CODEC_NUM_NON_REF_BUFFERS ]_vars

\* a non-reference allocation with m_waitForPak set has reset the counter
\* after calls that had brought it to 3
C27_Witness ==
    /\ call.op = "alloc" /\ ~call.refPolicy
    /\ hist.waitForPak
    /\ m_trackedBufCountNonRef = 0
    /\ hist.streak >= CODEC_NUM_NON_REF_BUFFERS

\* C28: a frame flagged used-as-reference, with no more than 16 entries in
\* its reference list, in a sequence whose GopPicSize is not 1, is bound in
\* the reference region when a slot is selected, the ring and its counter
\* left alone; every other frame is bound in the non-reference ring, whose
\* cursor advances.
C28_PolicyChoice ==
    [][ (call'.op = "alloc" /\ fault' # "crash")
        => IF /\ hist'.usedAsRef
              /\ hist'.numRef <= CODEC_MAX_NUM_REF_FRAME
              /\ hist'.GopPicSize # 1
           THEN /\ m_trackedBufCurrIdx' \in Slots => m_trackedBufCurrIdx' \in RefSlots
                /\ m_trackedBufNonRefIdx' = m_trackedBufNonRefIdx
                /\ m_trackedBufCountNonRef' = m_trackedBufCountNonRef
           ELSE /\ m_trackedBufCurrIdx' \in NonRefSlots
                /\ m_trackedBufCurrIdx' = CODEC_NUM_REF_BUFFERS + m_trackedBufNonRefIdx'
                /\ m_trackedBufNonRefIdx' # m_trackedBufNonRefIdx ]_vars

\* a frame used as reference in an I-frame-only sequence has been bound in the
\* ring right after a frame of a longer sequence bound in the reference region
C28_Witness ==
    /\ call.op = "alloc" /\ call.ok
    /\ hist.usedAsRef /\ hist.GopPicSize = 1
    /\ m_trackedBufCurrIdx \in NonRefSlots
    /\ m_trackedBufPenuIdx \in RefSlots

(***************************************************************************)
(* C29 and C30: the active positions and their frame-store ids             *)
(***************************************************************************)

\* C29: after SetPictureStructs a position is marked in bCurrUsedRefPic iff
\* a valid entry of the forward list of a P or B slice, or of the backward
\* list of a B slice, names it and the entry of RefFrameList is valid; the
\* lists of I slices and the backward lists of P slices mark nothing.
C29_ActiveIffUsedForPrediction ==
    pic.step = "SetPictureStructs"
    => \A i \in Positions :
          pic.bCurrUsedRefPic[i]
          <=> \E s \in 1..Len(pic.slices), ll \in 1..2 :
                 /\ \/ ll = 1 /\ pic.slices[s].slice_type \in {"P", "B"}
                    \/ ll = 2 /\ pic.slices[s].slice_type = "B"
                 /\ \E k \in 1..Len(pic.slices[s].RefPicList[ll]) :
                       /\ pic.slices[s].RefPicList[ll][k].PicFlags # "invalid"
                       /\ pic.slices[s].RefPicList[ll][k].FrameIdx = i
                       /\ pic.RefFrameList[i].PicFlags # "invalid"

\* C30: after SetPictureStructs every position that is not active has -1 in
\* RefIdxMapping, and when the call succeeded the number of frame-store ids
\* in RefIdxMapping is the number of surfaces the active positions name.
C30_InactiveStayUnmapped ==
    pic.step = "SetPictureStructs"
    => /\ \A i \in Positions : ~pic.bCurrUsedRefPic[i] => pic.RefIdxMapping[i] = 0 - 1
       /\ pic.eStatus = "SUCCESS"
            => Cardinality({pic.RefIdxMapping[i] : i \in {j \in Positions : pic.RefIdxMapping[j] >= 0}})
                  = Cardinality(ActiveIdentities)

(***************************************************************************)
(* C31 and C32: the frame-store ids of the active positions (SpecPic)      *)
(***************************************************************************)

\* C31: when SetPictureStructs succeeds every active position has a
\* frame-store id in 0..7 in RefIdxMapping, whatever the earlier positions
\* carry, and SetHcpPipeBufAddrParams writes presReferences and
\* presColMvTempBuffer at indices 0..7 only.
C31_EveryActiveMapped ==
    (pic.step = "SetPictureStructs" /\ pic.eStatus = "SUCCESS")
    => /\ \A i \in Positions :
             pic.bCurrUsedRefPic[i]
             => pic.RefIdxMapping[i] \in 0..(CODECHAL_MAX_CUR_NUM_REF_FRAME_HEVC - 1)
       /\ SetHcpPipeBufAddrParams(pic) \subseteq 0..(CODECHAL_MAX_CUR_NUM_REF_FRAME_HEVC - 1)

\* the first active position that names the surface of position i
FirstActivePosition(i) ==
    SetMin({j \in Positions : /\ pic.bCurrUsedRefPic[j]
                              /\ pic.RefFrameList[j].FrameIdx = pic.RefFrameList[i].FrameIdx})

\* C32: when SetPictureStructs succeeds with k surfaces among the active
\* positions, the ids of the active positions are exactly 0..k-1, they grow
\* with the first active position of each surface, and two active positions
\* of different surfaces never share an id.
C32_IdsCompactInjective ==
    (pic.step = "SetPictureStructs" /\ pic.eStatus = "SUCCESS")
    => LET active == {j \in Positions : pic.bCurrUsedRefPic[j]}
       IN  /\ {pic.RefIdxMapping[i] : i \in active} = 0..(Cardinality(ActiveIdentities) - 1)
           /\ \A i \in active : \A j \in active :
                 /\ pic.RefFrameList[i].FrameIdx # pic.RefFrameList[j].FrameIdx
                      => pic.RefIdxMapping[i] # pic.RefIdxMapping[j]
                 /\ FirstActivePosition(i) < FirstActivePosition(j)
                      => pic.RefIdxMapping[i] < pic.RefIdxMapping[j]

(***************************************************************************)
(* C33 (SpecCount) and C34 (Spec): the last three indices, the regions     *)
(***************************************************************************)

\* C33: every AllocateForCurrFrame call moves m_trackedBufPenuIdx to
\* m_trackedBufAnteIdx and m_trackedBufCurrIdx to m_trackedBufPenuIdx and
\* sets m_trackedBufCurrIdx to the slot it bound to the incoming frame, so
\* after three calls the three indices are the slots of the last three
\* calls in order.
C33_HistoryShift ==
    [][ (call'.op = "alloc" /\ fault' # "crash")
        => /\ m_trackedBufAnteIdx' = m_trackedBufPenuIdx
           /\ m_trackedBufPenuIdx' = m_trackedBufCurrIdx
           /\ m_trackedBufCurrIdx' \in Slots
                => m_trackedBuffer'[m_trackedBufCurrIdx'] = call'.frameIdx
           /\ Len(hist'.picks) = 3
                => <<m_trackedBufAnteIdx', m_trackedBufPenuIdx', m_trackedBufCurrIdx'>>
                      = hist'.picks ]_vars

\* three calls have selected three different slots, of both regions
C33_Witness ==
    /\ call.op = "alloc" /\ call.ok
    /\ Len(hist.picks) = 3
    /\ m_trackedBufAnteIdx \in RefSlots
    /\ m_trackedBufPenuIdx \in NonRefSlots
    /\ m_trackedBufCurrIdx \in RefSlots
    /\ m_trackedBufCurrIdx # m_trackedBufAnteIdx

\* the table LookUpBufIndex receives in the next AllocateForCurrFrame call:
\* the table after the deferred release, if one is due
TableAtLookUp ==
    IF m_trackedBufCountResize > 0
    THEN ReleaseBufferOnResChange(m_trackedBuffer, resources, m_trackedBufAnteIdx,
                                  m_trackedBufPenuIdx, m_trackedBufCurrIdx).buf
    ELSE m_trackedBuffer

\* C34: the non-reference policy binds one slot, a slot of the ring
\* (CODEC_NUM_REF_BUFFERS..CODEC_NUM_TRACKED_BUFFERS-1), to the incoming frame
\* and leaves every other slot, so every slot of the reference region, as
\* LookUpBufIndex found it; the reference policy leaves every slot of the
\* ring as it found it and does not move m_trackedBufNonRefIdx.
C34_PolicyKeepsToItsRegion ==
    [][ (call'.op = "alloc" /\ fault' # "crash")
        => IF call'.refPolicy
           THEN /\ \A i \in NonRefSlots : m_trackedBuffer'[i] = TableAtLookUp[i]
                /\ m_trackedBufNonRefIdx' = m_trackedBufNonRefIdx
           ELSE /\ m_trackedBufCurrIdx' \in NonRefSlots
                /\ m_trackedBuffer'[m_trackedBufCurrIdx'] = call'.frameIdx
                /\ \A i \in Slots \ {m_trackedBufCurrIdx'} :
                      m_trackedBuffer'[i] = TableAtLookUp[i] ]_vars

\* a ring frame was bound while both regions held other frames, and a
\* reference frame was bound next to a ring slot of another frame
C34_Witness ==
    /\ call.op = "alloc" /\ ~call.refPolicy /\ call.ok
    /\ m_trackedBufCurrIdx \in NonRefSlots
    /\ m_trackedBufPenuIdx \in RefSlots
    /\ IsRealIdentity(m_trackedBuffer[m_trackedBufPenuIdx])
    /\ \E i \in NonRefSlots :
          /\ i # m_trackedBufCurrIdx
          /\ IsRealIdentity(m_trackedBuffer[i])
          /\ m_trackedBuffer[i] # m_trackedBuffer[m_trackedBufCurrIdx]

(***************************************************************************)
(* C35: what the deferred release releases (SpecResize)                    *)
(***************************************************************************)

\* C35: while releases are due, every slot that ReleaseBufferOnResChange
\* would unbind or strip of resources in the next AllocateForCurrFrame call
\* is PendingResize: it is one of the three slots the last Resize kept, and
\* no frame has been bound to it since.
C35_ReleaseOnlyPendingSlots ==
    (fault # "crash" /\ m_trackedBufCountResize > 0)
    => \A i \in Slots :
          (\/ ReleaseBufferOnResChange(m_trackedBuffer, resources, m_trackedBufAnteIdx,
                                       m_trackedBufPenuIdx, m_trackedBufCurrIdx).buf[i]
                 # m_trackedBuffer[i]
           \/ ReleaseBufferOnResChange(m_trackedBuffer, resources, m_trackedBufAnteIdx,
                                       m_trackedBufPenuIdx, m_trackedBufCurrIdx).res[i]
                 # resources[i])
          => /\ m_trackedBuffer[i] = PICTURE_RESIZE
             /\ hist.sinceResize \in 0..(CODEC_NUM_NON_REF_BUFFERS - 1)
             /\ i = hist.snap[hist.sinceResize + 1]

\* the second call after a Resize has released the PendingResize slot that was
\* prevIdx at the Resize, with its resources, while the slot the first call
\* bound to a frame holds resources of the new geometry
C35_Witness ==
    /\ call.op = "alloc" /\ call.ok
    /\ hist.sinceResize = 2
    /\ hist.snap[2] \in Slots
    /\ hist.res[2] # {}
    /\ m_trackedBuffer[hist.snap[2]] = PICTURE_MAX_7BITS
    /\ resources[hist.snap[2]] = {}
    /\ m_trackedBufPenuIdx \in Slots
    /\ IsRealIdentity(m_trackedBuffer[m_trackedBufPenuIdx])
    /\ resources[m_trackedBufPenuIdx] # {}

(***************************************************************************)
(* SpecCapacity: the reference region at its capacity. The frames come in  *)
(* the order of their identities 0..CODEC_NUM_REF_BUFFERS-1, over and      *)
(* over, every frame used as reference; the candidate list of a frame      *)
(* names the CODEC_NUM_REF_BUFFERS-1 frames before it, or the              *)
(* CODEC_NUM_REF_BUFFERS-2 frames before it and the frame itself. Resize   *)
(* may be called between two frames. hist observes                         *)
(*   last     the identity of the last frame                               *)
(*   list     the candidate list of the last call                          *)
(*   selfs    the frames so far that named themselves in their list        *)
(*   resizes  the Resize calls so far                                      *)
(***************************************************************************)
\* at most so many frames name themselves, at most so many Resize calls
MaxSelfListed == 1
MaxResizes == 2

\* the k identities before identity f
Window(f, k) == {(f + CODEC_NUM_REF_BUFFERS - j) % CODEC_NUM_REF_BUFFERS : j \in 1..k}

CapacityLists(f) ==
    {Window(f, CODEC_NUM_REF_BUFFERS - 1), Window(f, CODEC_NUM_REF_BUFFERS - 2) \cup {f}}

InitCapacity ==
    /\ PoolInit
    /\ config = NoAllocConfig
    /\ hist = [last |-> CODEC_NUM_REF_BUFFERS - 1, list |-> {}, selfs |-> 0, resizes |-> 0]
    /\ pic = NoPicture

AllocateCapacity ==
    \E f \in {(hist.last + 1) % CODEC_NUM_REF_BUFFERS} :
       \E refList \in CapacityLists(f) :
          /\ (f \in refList) => hist.selfs < MaxSelfListed
          /\ AllocateForCurrFrame(refList, TRUE, f, FALSE, FALSE, "none")
          /\ hist' = IF fault' = "crash" THEN hist
                     ELSE [hist EXCEPT !.last = f, !.list = refList,
                                       !.selfs = IF f \in refList THEN @ + 1 ELSE @]

ResizeCapacity ==
    /\ hist.resizes < MaxResizes
    /\ Resize
    /\ hist' = [hist EXCEPT !.resizes = @ + 1]

NextCapacity == AllocateCapacity \/ ResizeCapacity

SpecCapacity == InitCapacity /\ [][NextCapacity]_vars

(***************************************************************************)
(* C36: the reference policy within its capacity (SpecCapacity)            *)
(***************************************************************************)

\* C36 (as stated): a reference-policy allocation whose candidate list names
\* at most CODEC_NUM_REF_BUFFERS-1 identities, made when no slot of the
\* reference region is PendingResize, selects a slot of the reference region
\* and succeeds.
C36_RefAllocationWithinCapacity ==
    [][ (/\ call'.op = "alloc" /\ call'.refPolicy /\ fault' # "crash"
         /\ Cardinality(hist'.list) <= CODEC_NUM_REF_BUFFERS - 1
         /\ \A i \in RefSlots : m_trackedBuffer[i] # PICTURE_RESIZE)
        => (m_trackedBufCurrIdx' \in RefSlots /\ call'.ok) ]_vars

\* C36 (amended): a reference-policy allocation whose candidate list names
\* at most CODEC_NUM_REF_BUFFERS-1 identities, made when no slot of the
\* reference region is PendingResize and no two slots of the reference
\* region are bound to the same identity, selects a slot of the reference
\* region and succeeds.
C36_RefAllocationWithinCapacityNoAlias ==
    [][ (/\ call'.op = "alloc" /\ call'.refPolicy /\ fault' # "crash"
         /\ Cardinality(hist'.list) <= CODEC_NUM_REF_BUFFERS - 1
         /\ \A i \in RefSlots : m_trackedBuffer[i] # PICTURE_RESIZE
         /\ \A i \in RefSlots : \A j \in RefSlots :
               (i # j /\ IsRealIdentity(m_trackedBuffer[i]))
               => m_trackedBuffer[i] # m_trackedBuffer[j])
        => (m_trackedBufCurrIdx' \in RefSlots /\ call'.ok) ]_vars

\* a reference allocation has found a slot with the reference region full
\* but for it: the CODEC_NUM_REF_BUFFERS-1 identities of its list are bound
\* in the other slots
C36_Witness ==
    /\ call.op = "alloc" /\ call.refPolicy /\ call.ok
    /\ m_trackedBufCurrIdx \in RefSlots
    /\ Cardinality(hist.list) = CODEC_NUM_REF_BUFFERS - 1
    /\ hist.last \notin hist.list
    /\ hist.resizes > 0
    /\ {m_trackedBuffer[i] : i \in RefSlots \ {m_trackedBufCurrIdx}} = hist.list

(***************************************************************************)
(* C37: m_waitForPak (SpecSlice)                                           *)
(***************************************************************************)

\* C37: SetPictureStructs leaves m_waitForPak false exactly when the picture
\* is the first frame, or rate control is disabled and the picture uses raw
\* pictures as references, is an I picture, or follows a reconstructed
\* picture that was not used as reference; otherwise, so for every later
\* picture under rate control, it leaves it true.
C37_WaitForPakRule ==
    (pic.step = "SetPictureStructs" /\ pic.eStatus = "SUCCESS")
    => /\ ~pic.m_waitForPak
            <=> (\/ pic.m_firstFrame
                 \/ (/\ ~pic.bBrcEnabled
                     /\ (\/ pic.bUseRawPicForRef
                         \/ pic.CodingType = "I"
                         \/ ~pic.prevUsedAsRef)))
       /\ (~pic.m_firstFrame /\ pic.bBrcEnabled) => pic.m_waitForPak

\* an I picture under rate control, not the first, has set m_waitForPak,
\* and SetSliceStructs has gone on with it
C37_Witness ==
    /\ pic.step = "SetSliceStructs"
    /\ pic.CodingType = "I" /\ pic.bBrcEnabled /\ ~pic.m_firstFrame
    /\ ~pic.prevUsedAsRef /\ pic.bUseRawPicForRef
    /\ pic.m_waitForPak

(***************************************************************************)
(* PreencLookUpBufIndex and ResetUsedForCurrFrame                          *)
(***************************************************************************)
\* lines 120-126
ResetUsedForCurrFrame(used) == [i \in Slots |-> FALSE]

\* the slot reached from slot j after k steps of j = (j + 1) % N
SlotAfter(j, k) == (j + k) % CODEC_NUM_TRACKED_BUFFERS

\* (mutant) the search for an empty entry does not look at bUsedforCurFrame
PreencEmptyEntriesAnySlot(used, j) == 0..(CODEC_NUM_TRACKED_BUFFERS - 1)

\* lines 151-160: the steps from slot j at which the second loop finds a slot
\* not used for the current frame
PreencEmptyEntries(used, j) ==
    {k \in 0..(CODEC_NUM_TRACKED_BUFFERS - 1) : ~used[SlotAfter(j, k)]}

\* (mutant) the frame is never found in the cache
PreencCacheHitsNone(buf, frameIdx, j) == {}

\* lines 138-149: the steps from slot j at which the first loop finds the
\* frame in the cache
PreencCacheHits(buf, frameIdx, j) ==
    {k \in 0..(CODEC_NUM_TRACKED_BUFFERS - 1) : buf[SlotAfter(j, k)] = frameIdx}

\* lines 128-170: the table, the flags, the index returned and *inCache
PreencLookUpBufIndex(buf, used, frameIdx) ==
    LET j == ToUint8(frameIdx % CODEC_NUM_TRACKED_BUFFERS)
        hits == PreencCacheHits(buf, frameIdx, j)
        free == PreencEmptyEntries(used, j)
    IN  IF hits # {}
        THEN [buf |-> buf,
              used |-> [used EXCEPT ![SlotAfter(j, SetMin(hits))] = TRUE],
              index |-> SlotAfter(j, SetMin(hits)), inCache |-> TRUE]
        ELSE IF free # {}
        THEN [buf |-> [buf EXCEPT ![SlotAfter(j, SetMin(free))] = frameIdx],
              used |-> [used EXCEPT ![SlotAfter(j, SetMin(free))] = TRUE],
              index |-> SlotAfter(j, SetMin(free)), inCache |-> FALSE]
        ELSE [buf |-> buf, used |-> used,
              index |-> CODEC_NUM_TRACKED_BUFFERS, inCache |-> FALSE]

(***************************************************************************)
(* SpecPreenc: the lookups of the pre-encode pass, frame after frame. The   *)
(* first lookup of a frame is for the least, a middle or the greatest      *)
(* identity; a later one is for the identity after the last one (0 after   *)
(* MaxPreencIdx) or again for the first identity of the frame. hist        *)
(* observes the last lookup and the current frame:                         *)
(*   frameIdx, index, inCache  the identity looked up, the index returned  *)
(*                             and *inCache                                *)
(*   first    the first identity looked up in this frame                   *)
(*   given    identity -> the slot a lookup of this frame returned for it  *)
(*            (NoSlot: none)                                               *)
(*   frames   the ResetUsedForCurrFrame calls so far                       *)
(***************************************************************************)
\* the identities looked up are 0..MaxPreencIdx, in at most MaxPreencFrames
\* frames after the first
MaxPreencIdx == 11
MaxPreencFrames == 2

PreencFrameIds == 0..MaxPreencIdx

NoSlot == CODEC_NUM_TRACKED_BUFFERS

NoLookup ==
    [frameIdx |-> PICTURE_MAX_7BITS, index |-> NoSlot, inCache |-> FALSE,
     first |-> PICTURE_MAX_7BITS, given |-> [f \in PreencFrameIds |-> NoSlot],
     frames |-> 0]

InitPreenc ==
    /\ PoolInit
    /\ config = NoAllocConfig
    /\ hist = NoLookup
    /\ pic = NoPicture

\* the identities the next lookup may be for
PreencNextIds ==
    IF hist.first = PICTURE_MAX_7BITS THEN {0, MaxPreencIdx \div 2, MaxPreencIdx}
    ELSE {(hist.frameIdx + 1) % (MaxPreencIdx + 1), hist.first}

Preenc ==
    \E frameIdx \in PreencNextIds :
       \E r \in {PreencLookUpBufIndex(m_trackedBuffer, bUsedforCurFrame, frameIdx)} :
          /\ m_trackedBuffer' = r.buf
          /\ bUsedforCurFrame' = r.used
          /\ call' = [CallInit EXCEPT !.op = "preenc", !.frameIdx = frameIdx]
          /\ hist' = [frames |-> hist.frames,
                      frameIdx |-> frameIdx, index |-> r.index, inCache |-> r.inCache,
                      first |-> IF hist.first = PICTURE_MAX_7BITS THEN frameIdx
                                ELSE hist.first,
                      given |-> IF r.index < CODEC_NUM_TRACKED_BUFFERS
                                THEN [hist.given EXCEPT ![frameIdx] = r.index]
                                ELSE hist.given]
          /\ UNCHANGED <<resources, m_trackedBufCurrIdx, m_trackedBufPenuIdx,
                         m_trackedBufAnteIdx, m_trackedBufNonRefIdx, m_trackedBufCountNonRef,
                         m_trackedBufCountResize, m_waitForTrackedBuffer, config, fault, pic>>

ResetUsed ==
    /\ hist.frames < MaxPreencFrames
    /\ bUsedforCurFrame' = ResetUsedForCurrFrame(bUsedforCurFrame)
    /\ call' = [CallInit EXCEPT !.op = "reset"]
    /\ hist' = [NoLookup EXCEPT !.frames = hist.frames + 1]
    /\ UNCHANGED <<m_trackedBuffer, resources, m_trackedBufCurrIdx, m_trackedBufPenuIdx,
                   m_trackedBufAnteIdx, m_trackedBufNonRefIdx, m_trackedBufCountNonRef,
                   m_trackedBufCountResize, m_waitForTrackedBuffer, config, fault, pic>>

NextPreenc == Preenc \/ ResetUsed

SpecPreenc == InitPreenc /\ [][NextPreenc]_vars

(***************************************************************************)
(* C38 and C39: the lookups of the pre-encode pass (SpecPreenc)            *)
(***************************************************************************)

\* C38: PreencLookUpBufIndex returns a slot bound to frameIdx, if there is
\* one, with inCache true, marks it used and changes no binding; otherwise
\* it binds frameIdx to the first slot not marked used, in circular order
\* from frameIdx mod N, marks it and returns it with inCache false; when
\* every slot is marked used it returns N with inCache false and changes
\* nothing.
C38_PreencLookUpResult ==
    [][ call'.op = "preenc"
        => IF \E s \in Slots : m_trackedBuffer[s] = hist'.frameIdx
           THEN /\ hist'.index \in Slots
                /\ m_trackedBuffer[hist'.index] = hist'.frameIdx
                /\ hist'.inCache
                /\ m_trackedBuffer' = m_trackedBuffer
                /\ bUsedforCurFrame' = [bUsedforCurFrame EXCEPT ![hist'.index] = TRUE]
           ELSE IF \E s \in Slots : ~bUsedforCurFrame[s]
           THEN /\ hist'.index \in Slots
                /\ ~bUsedforCurFrame[hist'.index]
                /\ \A k \in 0..(CODEC_NUM_TRACKED_BUFFERS - 1) :
                      (hist'.frameIdx + k) % CODEC_NUM_TRACKED_BUFFERS = hist'.index
                      => \A k2 \in 0..(k - 1) :
                            bUsedforCurFrame[(hist'.frameIdx + k2) % CODEC_NUM_TRACKED_BUFFERS]
                /\ ~hist'.inCache
                /\ m_trackedBuffer' = [m_trackedBuffer EXCEPT ![hist'.index] = hist'.frameIdx]
                /\ bUsedforCurFrame' = [bUsedforCurFrame EXCEPT ![hist'.index] = TRUE]
           ELSE /\ hist'.index = CODEC_NUM_TRACKED_BUFFERS
                /\ ~hist'.inCache
                /\ m_trackedBuffer' = m_trackedBuffer
                /\ bUsedforCurFrame' = bUsedforCurFrame ]_vars

\* a lookup has found every slot used for the current frame and returned N
C38_Witness ==
    /\ call.op = "preenc"
    /\ hist.index = CODEC_NUM_TRACKED_BUFFERS
    /\ ~hist.inCache
    /\ \A s \in Slots : bUsedforCurFrame[s] /\ m_trackedBuffer[s] # hist.frameIdx

\* C39: between two ResetUsedForCurrFrame calls no slot is returned for two
\* identities, a lookup of an identity that got a slot in this frame returns
\* that slot with inCache true, and no two slots are ever bound to the same
\* identity.
C39_OneSlotPerIdentityPerFrame ==
    [][ call'.op = "preenc"
        => /\ hist.given[hist'.frameIdx] # NoSlot
                => (hist'.index = hist.given[hist'.frameIdx] /\ hist'.inCache)
           /\ \A f \in PreencFrameIds : \A g \in PreencFrameIds :
                 (f # g /\ hist'.given[f] # NoSlot) => hist'.given[f] # hist'.given[g]
           /\ \A i \in Slots : \A j \in Slots :
                 (i # j /\ IsRealIdentity(m_trackedBuffer'[i]))
                 => m_trackedBuffer'[i] # m_trackedBuffer'[j] ]_vars

\* the first identity of the frame, found in the cache away from its home
\* slot, has been looked up again after another identity got its slot
C39_Witness ==
    /\ call.op = "preenc"
    /\ hist.inCache
    /\ hist.frameIdx = hist.first
    /\ hist.index # hist.frameIdx % CODEC_NUM_TRACKED_BUFFERS
    /\ \E g \in PreencFrameIds : g # hist.frameIdx /\ hist.given[g] # NoSlot
    /\ Cardinality({s \in Slots : bUsedforCurFrame[s]}) >= 2
====
